---- MODULE Spec2Model ----
(***************************************************************************)
(* A model of the danos/encoding rfc7951 data package: Values, persistent  *)
(* Objects and Arrays with module-prefixed keys, instance-identifiers and  *)
(* the Tree operations built on them (At, Find, Assoc, Delete, Merge,      *)
(* Diff, Edit, Marshal/Unmarshal).                                         *)
(*                                                                         *)
(* Go strings are sequences of one-character strings, so that the code's   *)
(* splitting, joining, quoting and parsing are modelled by what they do.   *)
(* A *Value is a record with a "kind" field naming the Go type of its      *)
(* data; the nil *Value pointer and a panic are two more kinds.            *)
(***************************************************************************)
EXTENDS Integers, Sequences, FiniteSets, TLC

VARIABLES
    pc,      \* position of the calling client: "start", then the call made
    op,      \* the operation the client calls
    tree,    \* the Tree the operation is called on (its root Value)
    other,   \* the second Tree (Merge, Diff) or the Value of a Value-level call
    iid,     \* the instance-identifier argument
    val,     \* the Value argument
    result,  \* what the call returned
    trees    \* the Trees a client holds, when it keeps several: their roots

vars == <<pc, op, tree, other, iid, val, result, trees>>

(***************************************************************************)
(* Strings                                                                 *)
(***************************************************************************)

\* The empty Go string.
EmptyStr == <<>>

\* strings.IndexRune: index of the first c in s, 0 when there is none.
RECURSIVE IndexFrom(_, _, _)
IndexFrom(s, c, i) ==
    IF i > Len(s) THEN 0
    ELSE IF s[i] = c THEN i
    ELSE IndexFrom(s, c, i + 1)

IndexRune(s, c) == IndexFrom(s, c, 1)

ContainsRune(s, c) == IndexRune(s, c) # 0

\* strings.SplitN(s, ":", 2)
SplitN2(s, c) ==
    LET cut(i) ==
            IF i = 0 THEN <<s>>
            ELSE <<SubSeq(s, 1, i - 1), SubSeq(s, i + 1, Len(s))>>
    IN  cut(IndexRune(s, c))

Digits == <<"0", "1", "2", "3", "4", "5", "6", "7", "8", "9">>

IsDigit(c) == \E i \in 1..10 : Digits[i] = c

DigitVal(c) == (CHOOSE i \in 1..10 : Digits[i] = c) - 1

\* strconv.FormatUint(n, 10)
RECURSIVE FormatUint(_)
FormatUint(n) ==
    IF n < 10 THEN <<Digits[n + 1]>>
    ELSE FormatUint(n \div 10) \o <<Digits[(n % 10) + 1]>>

\* strconv.FormatInt(n, 10)
FormatInt(n) == IF n < 0 THEN <<"-">> \o FormatUint(0 - n) ELSE FormatUint(n)

(***************************************************************************)
(* Values                                                                  *)
(***************************************************************************)

\* (*Value)(nil)
Nil == [kind |-> "nil"]

\* The outcome of a call that panics.
Panic == [kind |-> "panic"]

\* &Value{data: nil}
Null == [kind |-> "null"]

\* The constant empty value
Empty == [kind |-> "empty"]

U32(n) == [kind |-> "uint32", n |-> n]
I32(n) == [kind |-> "int32", n |-> n]
U64(n) == [kind |-> "uint64", n |-> n]
I64(n) == [kind |-> "int64", n |-> n]
\* A float64, held in tenths: F64(15) is 1.5
F64(t) == [kind |-> "float64", tenths |-> t]
Bool(b) == [kind |-> "bool", b |-> b]
Str(s) == [kind |-> "string", s |-> s]

\* hashmap.Empty()
EmptyStore == [k \in {} |-> Null]

\* Object{module, store} with its hashmap as a function from keys, and
\* Array{module, store} with its vector as a sequence, held in vec.
Obj(module, store) == [kind |-> "object", module |-> module, store |-> store]
Arr(module, store) == [kind |-> "array", module |-> module, vec |-> store]

ObjectNew == Obj(EmptyStr, EmptyStore)
ArrayNew == Arr(EmptyStr, <<>>)

IsObject(v) == v.kind = "object"
IsArray(v) == v.kind = "array"
IsPanic(v) == v.kind = "panic"
\* Whether the outcome of an operation, of any shape, is a panic
IsPanicOutcome(r) == "kind" \in DOMAIN r /\ r.kind = "panic"
IsLeaf(v) == v.kind \notin {"object", "array", "nil", "panic"}

\* hashmap Range: the members of a store in the map's iteration order, which
\* is fixed for a given key set and otherwise unspecified.
RECURSIVE KeySeq(_)
KeySeq(S) ==
    IF S = {} THEN <<>>
    ELSE LET k == CHOOSE x \in S : TRUE
         IN  <<k>> \o KeySeq(S \ {k})

Keys(store) == KeySeq(DOMAIN store)

\* hashmap Assoc / Delete
StoreAssoc(store, k, v) ==
    [x \in (DOMAIN store) \cup {k} |-> IF x = k THEN v ELSE store[x]]

StoreDelete(store, k) == [x \in (DOMAIN store) \ {k} |-> store[x]]

(***************************************************************************)
(* Object: keys, reparenting                                               *)
(***************************************************************************)

\* (*Object).parseKey: <<module, key>>; a key without "module:" belongs to
\* the object's module.
parseKey(obj, k) ==
    LET parts(elems) ==
            IF Len(elems) = 1 THEN <<obj.module, elems[1]>> ELSE elems
    IN  parts(SplitN2(k, ":"))

\* The key as the caller wrote it
adaptKeyAsGiven(obj, key) == key

\* (*Object).adaptKey: the key in the form it is stored under.
adaptKey(obj, key) ==
    LET join(p) == IF p[1] = EmptyStr THEN p[2] ELSE p[1] \o <<":">> \o p[2]
    IN  join(parseKey(obj, key))

RECURSIVE ValueBelongsTo(_, _)
RECURSIVE ObjectBelongsTo(_, _)
RECURSIVE ArrayBelongsTo(_, _)
RECURSIVE BelongsToStore(_, _, _, _, _)

\* (*Object).adaptValue: <<stored key, value reparented to the key's module>>
ObjectAdaptValue(obj, k, v) ==
    <<adaptKey(obj, k), ValueBelongsTo(v, parseKey(obj, k)[1])>>

\* The Range loop of (*Object).belongsTo over the transient newStore: each
\* member of the old module (or of none) is stored under new's key for it
\* and the key it had is then deleted.
BelongsToStore(obj, new, ks, i, newStore) ==
    IF i > Len(ks) THEN newStore
    ELSE LET key == ks[i]
             moved(kv) ==
                 StoreDelete(StoreAssoc(newStore, kv[1], kv[2]),
                             adaptKey(obj, key))
             member(module) ==
                 IF module = EmptyStr \/ module = obj.module
                 THEN moved(ObjectAdaptValue(new, key, obj.store[key]))
                 ELSE newStore
         IN  BelongsToStore(obj, new, ks, i + 1,
                            member(parseKey(obj, key)[1]))

\* (*Object).belongsTo
ObjectBelongsTo(obj, moduleName) ==
    IF moduleName = obj.module THEN obj
    ELSE LET new == [obj EXCEPT !.module = moduleName]
         IN  [new EXCEPT !.store =
                  BelongsToStore(obj, new, Keys(obj.store), 1, obj.store)]

\* (*Array).belongsTo, with (*Array).adaptValue applied to every element
ArrayBelongsTo(arr, moduleName) ==
    IF moduleName = arr.module THEN arr
    ELSE Arr(moduleName,
             [i \in 1..Len(arr.vec) |->
                 ValueBelongsTo(arr.vec[i], moduleName)])

\* (*Value).belongsTo
ValueBelongsTo(v, moduleName) ==
    CASE v.kind = "object" -> ObjectBelongsTo(v, moduleName)
      [] v.kind = "array" -> ArrayBelongsTo(v, moduleName)
      [] OTHER -> v

\* (*Array).adaptValue
ArrayAdaptValue(arr, v) == ValueBelongsTo(v, arr.module)

(***************************************************************************)
(* Object and Array operations.  Indices are Go's, from 0.                 *)
(***************************************************************************)

\* (*Object).At
ObjectAt(obj, key) ==
    LET find(k) == IF k \in DOMAIN obj.store THEN obj.store[k] ELSE Nil
    IN  find(adaptKey(obj, key))

\* (*Object).Contains
ObjectContains(obj, key) == adaptKey(obj, key) \in DOMAIN obj.store

\* (*Object).Assoc
ObjectAssoc(obj, key, value) ==
    LET assoc(kv) == [obj EXCEPT !.store = StoreAssoc(obj.store, kv[1], kv[2])]
    IN  assoc(ObjectAdaptValue(obj, key, value))

\* (*Object).Delete
ObjectDelete(obj, key) ==
    [obj EXCEPT !.store = StoreDelete(obj.store, adaptKey(obj, key))]

\* (*Object).Length
ObjectLength(obj) == Cardinality(DOMAIN obj.store)

\* The untyped nil that (*Array).Assoc pads with: not a *Value.
RawNil == [kind |-> "rawnil"]

\* (*Array).Length
ArrayLength(arr) == Len(arr.vec)

\* (*Array).Contains
ArrayContains(arr, index) == index < Len(arr.vec) /\ index >= 0

\* (*Array).At: the type assertion .(*Value) panics on a padded element.
ArrayAt(arr, index) ==
    IF index >= Len(arr.vec) \/ index < 0 THEN Nil
    ELSE IF arr.vec[index + 1].kind = "rawnil" THEN Panic
    ELSE arr.vec[index + 1]

\* (*Array).Assoc
ArrayAssoc(arr, index, value) ==
    LET n == Len(arr.vec)
        padded == IF n <= index
                  THEN arr.vec \o [i \in 1..(index + 1 - n) |-> RawNil]
                  ELSE arr.vec
    IN  [arr EXCEPT !.vec =
             [padded EXCEPT ![index + 1] = ArrayAdaptValue(arr, value)]]

\* (*Array).Append
ArrayAppend(arr, value) ==
    [arr EXCEPT !.vec = Append(arr.vec, ArrayAdaptValue(arr, value))]

\* (*Array).Delete: the vector without the element at index.
ArrayDelete(arr, index) ==
    IF ~ArrayContains(arr, index) THEN arr
    ELSE [arr EXCEPT !.vec =
              SubSeq(arr.vec, 1, index) \o
              SubSeq(arr.vec, index + 2, Len(arr.vec))]

(***************************************************************************)
(* RFC7951String                                                           *)
(***************************************************************************)

\* strconv.Quote without its surrounding quotes: a double quote and a
\* backslash are escaped; the other characters modelled stand for themselves.
RECURSIVE QuoteBody(_)
QuoteBody(s) ==
    IF s = <<>> THEN <<>>
    ELSE (IF Head(s) = "\"" \/ Head(s) = "\\" THEN <<"\\", Head(s)>>
          ELSE <<Head(s)>>) \o QuoteBody(Tail(s))

\* strconv.FormatFloat(f, 'f', -1, 64) of a float held in tenths
FormatFloat(t) ==
    LET a == IF t < 0 THEN 0 - t ELSE t
        sign == IF t < 0 THEN <<"-">> ELSE <<>>
    IN  IF a % 10 = 0 THEN sign \o FormatUint(a \div 10)
        ELSE sign \o FormatUint(a \div 10) \o <<".">> \o FormatUint(a % 10)

\* Whether (*Value).RFC7951String returns: it panics on a nil *Value and on
\* data without a string form (an Object or an Array).
HasRFC7951String(v) ==
    v.kind \in {"null", "empty", "uint32", "uint64", "int32", "int64",
                "float64", "bool", "string"}

\* (*Value).RFC7951String
RFC7951String(v) ==
    CASE v.kind = "null" -> <<"n", "u", "l", "l">>
      [] v.kind = "empty" -> <<"[", "n", "u", "l", "l", "]">>
      [] v.kind \in {"uint32", "uint64"} -> FormatUint(v.n)
      [] v.kind \in {"int32", "int64"} -> FormatInt(v.n)
      [] v.kind = "float64" -> FormatFloat(v.tenths)
      [] v.kind = "bool" -> IF v.b THEN <<"t", "r", "u", "e">>
                            ELSE <<"f", "a", "l", "s", "e">>
      [] v.kind = "string" -> QuoteBody(v.s)

(***************************************************************************)
(* InstanceID                                                              *)
(***************************************************************************)

\* A nil *predicates
NoPredicates == [isNil |-> TRUE, preds |-> <<>>]

Predicates(preds) == [isNil |-> FALSE, preds |-> preds]

\* nodeID{prefix, identifier, prefixInferred, predicates}
NodeID(prefix, identifier, inferred, predicates) ==
    [prefix |-> prefix, identifier |-> identifier,
     prefixInferred |-> inferred, predicates |-> predicates]

PosPredicate(pos) == [kind |-> "pos", pos |-> pos]

ExprPredicate(nodeID, value) == [kind |-> "expr", nodeID |-> nodeID, value |-> value]

\* (*InstanceID)(nil), and an InstanceID with its node-identifiers
NilInstanceID == [isNil |-> TRUE, ids |-> <<>>]

InstanceID(ids) == [isNil |-> FALSE, ids |-> ids]

\* The result of a Find: (value, found); a panic is carried in the value.
Found(v) == [v |-> v, found |-> TRUE]
NotFound(v) == [v |-> v, found |-> FALSE]
Panicked == [v |-> Panic, found |-> FALSE]

RECURSIVE nodeIDFind(_, _)
RECURSIVE predicatesFind(_, _)
RECURSIVE predicatesLoop(_, _, _)
RECURSIVE predicateFind(_, _)
RECURSIVE exprPredicateFind(_, _)

\* (*posPredicate).Find
posPredicateFind(p, value) ==
    IF value.kind = "array"
    THEN IF ArrayContains(value, p.pos)
         THEN LET at(e) == IF IsPanic(e) THEN Panicked ELSE Found(e)
              IN  at(ArrayAt(value, p.pos))
         ELSE NotFound(Nil)
    ELSE NotFound(Null)

\* What the callback of selectItems in (*exprPredicate).Find says of one
\* element: "yes", "no", or "panic" when the member has no string form.
exprMatches(p, elem) ==
    LET matches(r) ==
            IF IsPanic(r.v) THEN "panic"
            ELSE IF ~r.found THEN "no"
            ELSE IF ~HasRFC7951String(r.v) THEN "panic"
            ELSE IF RFC7951String(r.v) = p.value THEN "yes" ELSE "no"
    IN  matches(nodeIDFind(p.nodeID, elem))

\* (*Array).detect with the callback of the '.' form: the first element
\* whose string form is the value; elements are tested in order up to it.
RECURSIVE detectDot(_, _, _)
detectDot(p, store, i) ==
    IF i > Len(store) THEN NotFound(Nil)
    ELSE IF ~HasRFC7951String(store[i]) THEN Panicked
    ELSE IF RFC7951String(store[i]) = p.value THEN Found(store[i])
    ELSE detectDot(p, store, i + 1)

\* (*Array).selectItems: the elements the callback accepts, in order,
\* each adapted to the new array.
RECURSIVE selectItems(_, _, _)
selectItems(p, arr, i) ==
    IF i > Len(arr.vec) THEN <<>>
    ELSE (IF exprMatches(p, arr.vec[i]) = "yes"
          THEN <<ArrayAdaptValue(arr, arr.vec[i])>> ELSE <<>>)
         \o selectItems(p, arr, i + 1)

\* (*exprPredicate).Find
exprPredicateFind(p, value) ==
    IF value.kind = "array"
    THEN IF p.nodeID.identifier = <<".">>
         THEN detectDot(p, value.vec, 1)
         ELSE IF \E i \in 1..Len(value.vec) :
                    exprMatches(p, value.vec[i]) = "panic"
         THEN Panicked
         ELSE LET selected(sel) ==
                      [v |-> Arr(value.module, sel), found |-> sel # <<>>]
              IN  selected(selectItems(p, value, 1))
    ELSE NotFound(Null)

\* predicate.Find, through the embedded instanceIDSelector
predicateFind(p, value) ==
    IF p.kind = "pos" THEN posPredicateFind(p, value)
    ELSE exprPredicateFind(p, value)

\* The loop of (*predicates).Find from predicate i on the current value:
\* [ret: the loop returned (nil, false); out; found]
predicatesLoop(preds, i, cur) ==
    LET step(r) ==
            IF IsPanic(r.v) THEN [ret |-> TRUE, out |-> Panic, found |-> FALSE]
            ELSE IF ~r.found THEN [ret |-> TRUE, out |-> Nil, found |-> FALSE]
            ELSE IF r.v.kind = "array"
            THEN IF i = Len(preds)
                 THEN [ret |-> FALSE, out |-> r.v, found |-> TRUE]
                 ELSE predicatesLoop(preds, i + 1, r.v)
            ELSE IF i # Len(preds)
            THEN [ret |-> FALSE, out |-> Nil, found |-> FALSE]
            ELSE [ret |-> FALSE, out |-> r.v, found |-> TRUE]
    IN  step(predicateFind(preds[i], cur))

\* (*predicates).Find
predicatesFind(preds, value) ==
    LET only(e, found) ==
            IF IsPanic(e) THEN Panicked ELSE [v |-> e, found |-> found]
        ret(l) ==
            IF l.ret THEN NotFound(l.out)
            ELSE IF l.out.kind = "nil" THEN NotFound(Null)
            ELSE IF l.out.kind = "array"
            THEN IF ArrayLength(l.out) # 1 THEN NotFound(Nil)
                 ELSE only(ArrayAt(l.out, 0), l.found)
            ELSE [v |-> l.out, found |-> l.found]
    IN  ret(predicatesLoop(preds, 1, value))

\* (*nodeID).Find
nodeIDFind(id, value) ==
    IF value.kind = "nil" THEN NotFound(Nil)
    ELSE IF value.kind = "object"
    THEN LET key == id.prefix \o <<":">> \o id.identifier
         IN  IF ~id.predicates.isNil
             THEN predicatesFind(id.predicates.preds, ObjectAt(value, key))
             ELSE [v |-> ObjectAt(value, key), found |-> ObjectContains(value, key)]
    ELSE NotFound(Null)

\* (*InstanceID).Find
RECURSIVE FindFrom(_, _, _)
FindFrom(ids, i, value) ==
    IF i > Len(ids) THEN [v |-> value, found |-> i > 1]
    ELSE LET next(r) ==
                 IF IsPanic(r.v) THEN Panicked
                 ELSE IF ~r.found THEN NotFound(Nil)
                 ELSE FindFrom(ids, i + 1, r.v)
         IN  next(nodeIDFind(ids[i], value))

InstanceIDFind(i, value) == FindFrom(i.ids, 1, value)

\* (*InstanceID).MatchAgainst
MatchAgainst(i, value) == InstanceIDFind(i, value).v

(***************************************************************************)
(* Paths, selectors and identities for writes                              *)
(***************************************************************************)

\* (*InstanceID).path: the instance-identifier of the parent of the last
\* addressed node; nil for an instance-identifier without node-identifiers.
path(i) ==
    IF Len(i.ids) = 0 THEN NilInstanceID
    ELSE LET n == Len(i.ids)
         IN  IF i.ids[n].predicates.isNil
             THEN InstanceID(SubSeq(i.ids, 1, n - 1))
             ELSE InstanceID([i.ids EXCEPT ![n].predicates = NoPredicates])

\* (*InstanceID).selector with (*nodeID).selector: the node-identifier
\* itself, or its predicates when it has some.
selector(i) ==
    IF Len(i.ids) = 0 THEN [kind |-> "nil"]
    ELSE LET last == i.ids[Len(i.ids)]
         IN  IF last.predicates.isNil
             THEN [kind |-> "nodeID", id |-> last]
             ELSE [kind |-> "predicates", preds |-> last.predicates.preds]

\* Identities: nil, a key, an index, or the indices an expression matches.
IdNil == [kind |-> "nil"]
IdKey(s) == [kind |-> "string", s |-> s]
IdInt(n) == [kind |-> "int", n |-> n]
IdInts(ns) == [kind |-> "ints", ns |-> ns]
IdPanic == [kind |-> "panic"]

\* (*nodeID).computeIdentifier
nodeIDComputeIdentifier(id, value) ==
    IF value.kind = "object"
    THEN LET key == id.prefix \o <<":">> \o id.identifier
         IN  IF ObjectContains(value, key) THEN IdKey(key) ELSE IdNil
    ELSE IdNil

\* (*nodeID).computeIdentifierDefault
nodeIDComputeIdentifierDefault(id, v) ==
    LET default(ident) ==
            IF ident.kind = "nil"
            THEN IdKey(id.prefix \o <<":">> \o id.identifier)
            ELSE ident
    IN  default(nodeIDComputeIdentifier(id, v))

\* (*posPredicate).computeIdentifier
posPredicateComputeIdentifier(p, value) == IdInt(p.pos)

\* Whether the Range callback of (*exprPredicate).computeIdentifier takes
\* the element: "yes", "no", "panic".
exprIdentifies(p, elem) ==
    IF p.nodeID.identifier = <<".">>
    THEN IF ~HasRFC7951String(elem) THEN "panic"
         ELSE IF RFC7951String(elem) = p.value THEN "yes" ELSE "no"
    ELSE LET identifies(r) ==
                 IF IsPanic(r.v) THEN "panic"
                 ELSE IF ~(r.found /\ r.v.kind # "nil") THEN "no"
                 ELSE IF ~HasRFC7951String(r.v) THEN "panic"
                 ELSE IF RFC7951String(r.v) = p.value THEN "yes" ELSE "no"
         IN  identifies(nodeIDFind(p.nodeID, elem))

\* The 0-based indices, ascending, of the elements from i on that match.
RECURSIVE exprIndices(_, _, _)
exprIndices(p, store, i) ==
    IF i > Len(store) THEN <<>>
    ELSE (IF exprIdentifies(p, store[i]) = "yes" THEN <<i - 1>> ELSE <<>>)
         \o exprIndices(p, store, i + 1)

\* (*exprPredicate).computeIdentifier
exprPredicateComputeIdentifier(p, value) ==
    IF value.kind = "array"
    THEN IF \E i \in 1..Len(value.vec) :
                exprIdentifies(p, value.vec[i]) = "panic"
         THEN IdPanic
         ELSE LET identity(ret) ==
                      IF Len(ret) = 1 THEN IdInt(ret[1]) ELSE IdInts(ret)
              IN  identity(exprIndices(p, value.vec, 1))
    ELSE IdNil

predicateComputeIdentifier(p, value) ==
    IF p.kind = "pos" THEN posPredicateComputeIdentifier(p, value)
    ELSE exprPredicateComputeIdentifier(p, value)

\* The loop of (*predicates).computeIdentifier: the indices still matched
\* after the predicates from i on, or {-1} for a panic.
RECURSIVE matchedAfter(_, _, _, _)
matchedAfter(preds, i, value, matched) ==
    IF i > Len(preds) THEN matched
    ELSE LET filter(id) ==
                 CASE id.kind = "panic" -> {-1}
                   [] id.kind = "nil" -> {}
                   [] id.kind = "ints" ->
                        matchedAfter(preds, i + 1, value,
                            {x \in matched :
                                \E j \in 1..Len(id.ns) : id.ns[j] = x})
                   [] id.kind = "int" ->
                        matchedAfter(preds, i + 1, value, matched \cap {id.n})
         IN  filter(predicateComputeIdentifier(preds[i], value))

\* (*predicates).computeIdentifier
predicatesComputeIdentifier(preds, value) ==
    IF value.kind = "array"
    THEN LET single(matched) ==
                 IF matched = {-1} THEN IdPanic
                 ELSE IF Cardinality(matched) # 1 THEN IdNil
                 ELSE IdInt(CHOOSE x \in matched : TRUE)
         IN  single(matchedAfter(preds, 1, value,
                                 0..(ArrayLength(value) - 1)))
    ELSE IdNil

\* (*predicates).computeIdentifierDefault: the matched index, else the
\* array's length (append), else 0; nil for a nil *Value.
predicatesComputeIdentifierDefault(preds, v) ==
    LET default(id) ==
            IF id.kind = "nil"
            THEN IF v.kind = "array" THEN IdInt(ArrayLength(v))
                 ELSE IF v.kind = "nil" THEN IdNil
                 ELSE IdInt(0)
            ELSE id
    IN  default(predicatesComputeIdentifier(preds, v))

\* selector.computeIdentifier / computeIdentifierDefault
computeIdentifier(sel, value) ==
    IF sel.kind = "nodeID" THEN nodeIDComputeIdentifier(sel.id, value)
    ELSE predicatesComputeIdentifier(sel.preds, value)

computeIdentifierDefault(sel, value) ==
    IF sel.kind = "nodeID" THEN nodeIDComputeIdentifierDefault(sel.id, value)
    ELSE predicatesComputeIdentifierDefault(sel.preds, value)

\* (*exprPredicate).modifyMatchCriteria: the key of the predicate is set on
\* the Object to be stored; the '.' form changes nothing; the type
\* assertion panics when the value is no Object.
exprPredicateModifyMatchCriteria(p, v) ==
    IF p.nodeID.identifier = <<".">> THEN v
    ELSE IF v.kind = "object"
    THEN ObjectAssoc(v, p.nodeID.identifier, Str(p.value))
    ELSE Panic

\* (*predicates).modifyMatchCriteria
RECURSIVE predicatesModifyMatchCriteria(_, _, _)
predicatesModifyMatchCriteria(preds, i, v) ==
    IF i > Len(preds) \/ IsPanic(v) THEN v
    ELSE predicatesModifyMatchCriteria(preds, i + 1,
             IF preds[i].kind = "expr"
             THEN exprPredicateModifyMatchCriteria(preds[i], v)
             ELSE v)

\* createNode of a selector: an Object for a node-identifier, an Array for
\* predicates.
createNode(sel) == IF sel.kind = "nodeID" THEN ObjectNew ELSE ArrayNew

(***************************************************************************)
(* Parsing node-identifiers and predicates                                 *)
(***************************************************************************)

Lower == <<"a", "b", "c", "d", "e", "f", "g", "h", "i", "j", "k", "l", "m",
           "n", "o", "p", "q", "r", "s", "t", "u", "v", "w", "x", "y", "z">>

Upper == <<"A", "B", "C", "D", "E", "F", "G", "H", "I", "J", "K", "L", "M",
           "N", "O", "P", "Q", "R", "S", "T", "U", "V", "W", "X", "Y", "Z">>

\* unicode.IsLetter, on the characters modelled
IsLetter(c) == \E i \in 1..26 : Lower[i] = c \/ Upper[i] = c

\* strings.ToUpper
ToUpperChar(c) ==
    IF \E i \in 1..26 : Lower[i] = c
    THEN Upper[CHOOSE i \in 1..26 : Lower[i] = c]
    ELSE c

ToUpper(s) == [i \in 1..Len(s) |-> ToUpperChar(s[i])]

\* (*nodeID).isAlphaNumeric
isAlphaNumeric(r) == r = "_" \/ IsLetter(r) \/ IsDigit(r)

\* (*nodeID).checkIDPart: TRUE when the part passes, FALSE when it panics.
checkIDPart(str) ==
    /\ ~(Len(str) >= 3 /\ ToUpper(SubSeq(str, 1, 3)) = <<"X", "M", "L">>)
    /\ \A i \in 1..Len(str) :
          IF i = 1 THEN str[i] = "_" \/ IsLetter(str[i])
          ELSE isAlphaNumeric(str[i]) \/ str[i] = "-" \/ str[i] = "."

\* strings.Trim(s, cutset)
RECURSIVE TrimLeft(_, _)
TrimLeft(s, cutset) ==
    IF s # <<>> /\ Head(s) \in cutset THEN TrimLeft(Tail(s), cutset) ELSE s

RECURSIVE TrimRight(_, _)
TrimRight(s, cutset) ==
    IF s # <<>> /\ s[Len(s)] \in cutset
    THEN TrimRight(SubSeq(s, 1, Len(s) - 1), cutset) ELSE s

Trim(s, cutset) == TrimRight(TrimLeft(s, cutset), cutset)

\* sp + htab
wsp == {" ", "\t"}

\* Whether strconv.ParseUint(s, 10, 64) succeeds, and its value; the numbers
\* modelled stay far below 2^64.
IsUintText(s) == s # <<>> /\ \A i \in 1..Len(s) : IsDigit(s[i])

RECURSIVE ParseUint(_)
ParseUint(s) ==
    IF s = <<>> THEN 0
    ELSE ParseUint(SubSeq(s, 1, Len(s) - 1)) * 10 + DigitVal(s[Len(s)])

\* The scan of (*predicates).getPredicateStrings from character i on:
\* the predicate strings, or <<"panic">> for a nested or unterminated
\* predicate or an unterminated quote.
RECURSIVE predicateStringsFrom(_, _, _, _, _, _, _)
predicateStringsFrom(input, i, first, inSingleQ, inDoubleQ, inPredicate, out) ==
    IF i > Len(input)
    THEN IF inDoubleQ \/ inSingleQ \/ inPredicate THEN <<"panic">> ELSE out
    ELSE LET r == input[i]
             quoted == inDoubleQ \/ inSingleQ
         IN  CASE r = "[" /\ ~quoted ->
                    IF inPredicate THEN <<"panic">>
                    ELSE predicateStringsFrom(input, i + 1, first,
                             inSingleQ, inDoubleQ, TRUE, out)
               [] r = "]" /\ ~quoted ->
                    predicateStringsFrom(input, i + 1, i + 1,
                        inSingleQ, inDoubleQ, FALSE,
                        Append(out, SubSeq(input, first, i)))
               [] r = "'" ->
                    predicateStringsFrom(input, i + 1, first,
                        ~inSingleQ, inDoubleQ, inPredicate, out)
               [] r = "\"" ->
                    predicateStringsFrom(input, i + 1, first,
                        inSingleQ, ~inDoubleQ, inPredicate, out)
               [] OTHER ->
                    predicateStringsFrom(input, i + 1, first,
                        inSingleQ, inDoubleQ, inPredicate, out)

getPredicateStrings(input) ==
    predicateStringsFrom(input, 1, 1, FALSE, FALSE, FALSE, <<>>)

RECURSIVE nodeIDParse(_, _)

\* (*exprPredicate).parse; Panic when it panics.
exprPredicateParse(prefix, input) ==
    LET quoted(node, rest, end) ==
            IF end = 0 \/ end # Len(rest) THEN Panic
            ELSE ExprPredicate(node, SubSeq(rest, 1, end - 1))
        compared(node, expr) ==
            IF "kind" \in DOMAIN node THEN Panic
            ELSE IF expr = <<>> THEN Panic
            ELSE IF expr[1] # "\"" /\ expr[1] # "'" THEN Panic
            ELSE quoted(node, Tail(expr), IndexRune(Tail(expr), expr[1]))
        sides(lhs, expr) ==
            compared(IF lhs = <<".">>
                     THEN NodeID(prefix, <<".">>, TRUE, NoPredicates)
                     ELSE nodeIDParse(prefix, lhs),
                     expr)
        split(parts) ==
            IF Len(parts) < 2 THEN Panic
            ELSE sides(Trim(parts[1], wsp), Trim(parts[2], wsp))
    IN  split(SplitN2(input, "="))

\* (*predicate).parse
predicateParse(prefix, input) ==
    IF input[1] # "[" \/ input[Len(input)] # "]" THEN Panic
    ELSE LET parsed(body) ==
                 IF IsUintText(body) THEN PosPredicate(ParseUint(body))
                 ELSE exprPredicateParse(prefix, body)
         IN  parsed(Trim(Trim(input, {"[", "]"}), wsp))

\* (*predicates).parse
predicatesParse(prefix, input) ==
    LET all(preds) ==
            IF \E i \in 1..Len(preds) : preds[i].kind = "panic" THEN Panic
            ELSE Predicates(preds)
        each(strs) ==
            IF strs = <<"panic">> THEN Panic
            ELSE all([i \in 1..Len(strs) |-> predicateParse(prefix, strs[i])])
    IN  each(getPredicateStrings(input))

\* (*nodeID).parse; Panic when it panics.
nodeIDParse(prefix, input) ==
    LET checked(pfx, ident, inferred, preds) ==
            IF ~checkIDPart(pfx) THEN Panic
            ELSE IF "kind" \in DOMAIN preds THEN Panic
            ELSE IF ~checkIDPart(ident) THEN Panic
            ELSE NodeID(pfx, ident, inferred, preds)
        identified(pfx, rest, inferred, start) ==
            checked(pfx,
                    IF start = 0 THEN rest ELSE SubSeq(rest, 1, start - 1),
                    inferred,
                    IF start = 0 THEN NoPredicates
                    ELSE predicatesParse(pfx, SubSeq(rest, start, Len(rest))))
        prefixed(pfx, rest, single) ==
            identified(pfx, rest, single \/ pfx = prefix, IndexRune(rest, "["))
        split(idParts) ==
            IF Len(idParts) = 1 /\ prefix = EmptyStr THEN Panic
            ELSE IF Len(idParts) = 1 THEN prefixed(prefix, idParts[1], TRUE)
            ELSE prefixed(idParts[1], idParts[2], FALSE)
    IN  split(SplitN2(input, ":"))

\* The scan of (*InstanceID).getNodeIDStrings from character i on: the
\* texts between the '/' outside quotes, or <<"panic">> for an unterminated
\* quote.
RECURSIVE nodeIDStringsFrom(_, _, _, _, _, _)
nodeIDStringsFrom(input, i, first, inSingleQ, inDoubleQ, out) ==
    IF i > Len(input)
    THEN IF inDoubleQ \/ inSingleQ THEN <<"panic">>
         ELSE IF first <= Len(input)
         THEN Append(out, SubSeq(input, first, Len(input)))
         ELSE out
    ELSE LET r == input[i]
         IN  IF r = "'"
             THEN nodeIDStringsFrom(input, i + 1, first, ~inSingleQ, inDoubleQ, out)
             ELSE IF r = "\""
             THEN nodeIDStringsFrom(input, i + 1, first, inSingleQ, ~inDoubleQ, out)
             ELSE IF r = "/" /\ ~inDoubleQ /\ ~inSingleQ
             THEN nodeIDStringsFrom(input, i + 1, i + 1, inSingleQ, inDoubleQ,
                                    Append(out, SubSeq(input, first, i - 1)))
             ELSE nodeIDStringsFrom(input, i + 1, first, inSingleQ, inDoubleQ, out)

getNodeIDStrings(input) ==
    nodeIDStringsFrom(input, 1, 1, FALSE, FALSE, <<>>)

\* The loop of (*InstanceID).parse: each node-identifier is parsed with the
\* prefix of the one before it; <<Panic>> when one does not parse.
RECURSIVE parseNodeIDs(_, _, _, _)
parseNodeIDs(strs, i, prefix, out) ==
    IF i > Len(strs) THEN out
    ELSE LET next(node) ==
                 IF "kind" \in DOMAIN node THEN <<Panic>>
                 ELSE parseNodeIDs(strs, i + 1, node.prefix, Append(out, node))
         IN  next(nodeIDParse(prefix, strs[i]))

\* InstanceIDNew with (*InstanceID).parse: the instance-identifier, or Panic.
InstanceIDNew(input) ==
    LET parsed(ids) == IF ids = <<Panic>> THEN Panic ELSE InstanceID(ids)
        split(strs) ==
            IF strs = <<"panic">> \/ Len(strs) = 0 THEN Panic
            ELSE IF strs[1] # EmptyStr \/ Len(strs) = 1 THEN Panic
            ELSE parsed(parseNodeIDs(Tail(strs), 1, EmptyStr, <<>>))
    IN  split(getNodeIDStrings(input))

\* (*InstanceID).push: the instance-identifier extended by the node-identifier
\* parsed from a key; the prefix defaults to the last node's.  Panic when the
\* key does not parse.
push(i, nodeIDstring) ==
    LET prefix == IF Len(i.ids) # 0 THEN i.ids[Len(i.ids)].prefix ELSE EmptyStr
        pushed(node) ==
            IF "kind" \in DOMAIN node THEN Panic
            ELSE InstanceID(Append(i.ids, node))
    IN  pushed(nodeIDParse(prefix, nodeIDstring))

\* (*InstanceID).addPosPredicate
addPosPredicate(i, pos) ==
    IF Len(i.ids) = 0 THEN i
    ELSE LET n == Len(i.ids)
             old == i.ids[n].predicates.preds
         IN  InstanceID([i.ids EXCEPT ![n].predicates =
                            Predicates(Append(old, PosPredicate(pos)))])

(***************************************************************************)
(* Merge                                                                   *)
(***************************************************************************)

RECURSIVE ValueMerge(_, _)
RECURSIVE ObjectMergeOld(_, _, _, _, _)
RECURSIVE ArrayMergeOld(_, _, _, _)

\* The first Range of (*Object).merge: every member of obj that n has too
\* is stored merged with n's.
ObjectMergeOld(out, n, ks, i, store) ==
    IF i > Len(ks) THEN store
    ELSE LET member(kv) ==
                 IF ObjectContains(n, kv[1])
                 THEN StoreAssoc(store, kv[1],
                                 ValueMerge(kv[2], ObjectAt(n, kv[1])))
                 ELSE store
         IN  ObjectMergeOld(out, n, ks, i + 1,
                 member(ObjectAdaptValue(out, ks[i], out.store[ks[i]])))

\* A second Range that adds nothing, against which C10 is checked to fail
ObjectMergeNewDropped(out, n, ks, i, store) == store

\* The second Range of (*Object).merge: every member of n whose key is not
\* yet stored is added.
RECURSIVE ObjectMergeNew(_, _, _, _, _)
ObjectMergeNew(out, n, ks, i, store) ==
    IF i > Len(ks) THEN store
    ELSE LET member(kv) ==
                 IF kv[1] \notin DOMAIN store
                 THEN StoreAssoc(store, kv[1], kv[2])
                 ELSE store
         IN  ObjectMergeNew(out, n, ks, i + 1,
                 member(ObjectAdaptValue(out, ks[i], n.store[ks[i]])))

\* (*Object).merge
ObjectMerge(obj, new) ==
    IF new.kind = "nil" THEN Panic
    ELSE IF new.kind = "object"
    THEN [obj EXCEPT !.store =
              ObjectMergeNew(obj, new, Keys(new.store), 1,
                  ObjectMergeOld(obj, new, Keys(obj.store), 1, obj.store))]
    ELSE obj

\* The first Range of (*Array).merge: every element of arr whose index n
\* has too is replaced by its merge with n's.
ArrayMergeOld(arr, n, i, out) ==
    IF i >= Len(arr.vec) THEN out
    ELSE ArrayMergeOld(arr, n, i + 1,
             IF ArrayContains(n, i)
             THEN ArrayAssoc(out, i, ValueMerge(arr.vec[i + 1], ArrayAt(n, i)))
             ELSE out)

\* The second Range of (*Array).merge: every element of n at an index arr
\* has not is appended.
RECURSIVE ArrayMergeNew(_, _, _, _)
ArrayMergeNew(arr, n, i, out) ==
    IF i >= Len(n.vec) THEN out
    ELSE ArrayMergeNew(arr, n, i + 1,
             IF ~ArrayContains(arr, i) THEN ArrayAppend(out, n.vec[i + 1])
             ELSE out)

\* (*Array).merge
ArrayMerge(arr, new) ==
    IF new.kind = "nil" THEN Panic
    ELSE IF new.kind = "array"
    THEN ArrayMergeNew(arr, new, 0, ArrayMergeOld(arr, new, 0, arr))
    ELSE arr

\* A Merge whose default keeps the old value, against which C9 is checked to
\* fail
ValueMergeKeepsOld(old, new) ==
    CASE old.kind = "nil" -> Panic
      [] old.kind = "object" -> ObjectMerge(old, new)
      [] old.kind = "array" -> ArrayMerge(old, new)
      [] OTHER -> old

\* (*Value).Merge: a value with a merge method merges; any other value is
\* replaced by new.
ValueMerge(old, new) ==
    CASE old.kind = "nil" -> Panic
      [] old.kind = "object" -> ObjectMerge(old, new)
      [] old.kind = "array" -> ArrayMerge(old, new)
      [] OTHER -> new

\* (*Tree).Merge; AsObject panics when the merged root is no Object.
TreeMerge(t, new) ==
    LET AsObject(r) == IF r.kind = "object" THEN r ELSE Panic
    IN  AsObject(ValueMerge(t, new))

(***************************************************************************)
(* Tree: At, Find, Assoc, Delete                                           *)
(***************************************************************************)

\* A tree whose root is assigned in place, against which C3 is checked to
\* fail
TreeSetRoot(ts, t, obj) == [ts EXCEPT ![t] = obj]

\* TreeFromObject, as the operations on a tree t end with it: a new Tree is
\* allocated next to the trees ts that exist, and t keeps its root.
TreeFromObject(ts, t, obj) == Append(ts, obj)

\* (*Tree).at
TreeAt(t, id) == MatchAgainst(id, t)

\* (*Tree).find
TreeFind(t, id) == InstanceIDFind(id, t)

\* (*Tree).Contains
TreeContains(t, id) == InstanceIDFind(id, t).found

\* The first loop of (*Tree).assoc: from the addressed node's parent up to
\* the root, the value found there (created when there is none) and the
\* selector that addresses the child in it.
RECURSIVE assocQueue(_, _, _)
assocQueue(root, p, sel) ==
    IF p.isNil THEN <<>>
    ELSE LET valueOf(m) == IF m.kind = "nil" THEN createNode(sel) ELSE m
         IN  <<[value |-> valueOf(MatchAgainst(p, root)), selector |-> sel]>>
             \o assocQueue(root, path(p), selector(p))

\* One step of the second loop of (*Tree).assoc: v stored in vs.value under
\* the identity the selector computes.  The type assertions on the identity
\* and on the result of Perform panic when the parent is neither an Object
\* addressed by a key nor an Array addressed by an index.
assocStep(vs, v) ==
    LET Perform(v1, id) ==
            IF IsPanic(v1) \/ v1.kind = "nil" \/ id.kind = "panic" THEN Panic
            ELSE IF vs.value.kind = "object"
            THEN IF id.kind = "string" THEN ObjectAssoc(vs.value, id.s, v1)
                 ELSE Panic
            ELSE IF vs.value.kind = "array"
            THEN IF id.kind = "int" THEN ArrayAssoc(vs.value, id.n, v1)
                 ELSE Panic
            ELSE Panic
    IN  Perform(IF vs.selector.kind = "predicates"
                THEN predicatesModifyMatchCriteria(vs.selector.preds, 1, v)
                ELSE v,
                computeIdentifierDefault(vs.selector, vs.value))

RECURSIVE assocFold(_, _, _)
assocFold(queue, i, v) ==
    IF IsPanic(v) \/ i > Len(queue) THEN v
    ELSE assocFold(queue, i + 1, assocStep(queue[i], v))

\* (*Tree).assoc: the root of the new tree, or Panic.
TreeAssoc(t, i, v) ==
    LET AsObject(r) == IF r.kind = "object" THEN r ELSE Panic
    IN  AsObject(assocFold(assocQueue(t, path(i), selector(i)), 1, v))

\* (*Tree).delete: the root of the new tree, or Panic.
TreeDelete(t, i) ==
    LET reassoc(parent) ==
            IF IsPanic(parent) THEN Panic ELSE TreeAssoc(t, path(i), parent)
        Perform(v, id) ==
            reassoc(IF v.kind = "object" /\ id.kind = "string"
                    THEN ObjectDelete(v, id.s)
                    ELSE IF v.kind = "array" /\ id.kind = "int"
                    THEN ArrayDelete(v, id.n)
                    ELSE Panic)
        identified(v) == Perform(v, computeIdentifier(selector(i), v))
        found(f) ==
            IF IsPanic(f.v) THEN Panic
            ELSE IF ~f.found THEN t
            ELSE identified(MatchAgainst(path(i), t))
    IN  found(InstanceIDFind(i, t))

(***************************************************************************)
(* Equality                                                                *)
(***************************************************************************)

\* (*Value).Equal on two non-nil values: the data are of one kind and equal;
\* Objects and Arrays are equal when their modules and their stores are.
Equal(a, b) == a.kind = b.kind /\ a = b

(***************************************************************************)
(* Diff                                                                    *)
(***************************************************************************)

\* EditEntry{Action, Path, Value}
EditEntry(action, p, value) == [action |-> action, path |-> p, value |-> value]

\* The outcome of a diff: the entries, or a panic from building a path.
Entries(es) == [panic |-> FALSE, out |-> es]
DiffPanic == [panic |-> TRUE, out |-> <<>>]

\* append(out, more...)
Cat(a, b) == IF a.panic \/ b.panic THEN DiffPanic ELSE Entries(a.out \o b.out)

RECURSIVE ValueDiff(_, _, _)
RECURSIVE ObjectDiffOld(_, _, _, _, _)
RECURSIVE ArrayDiffOld(_, _, _, _)

\* The first Range of (*Object).diff: a member other has too is diffed
\* against it, a member other has not is deleted.
ObjectDiffOld(obj, new, p, ks, i) ==
    IF i > Len(ks) THEN Entries(<<>>)
    ELSE LET k == ks[i]
             this(kp) ==
                 IF "kind" \in DOMAIN kp THEN DiffPanic
                 ELSE IF ObjectContains(new, k)
                 THEN ValueDiff(obj.store[k], ObjectAt(new, k), kp)
                 ELSE Entries(<<EditEntry("delete", kp, Nil)>>)
         IN  Cat(this(push(p, k)), ObjectDiffOld(obj, new, p, ks, i + 1))

\* The second Range of (*Object).diff: a member only other has is assoc'd.
RECURSIVE ObjectDiffNew(_, _, _, _, _)
ObjectDiffNew(obj, new, p, ks, i) ==
    IF i > Len(ks) THEN Entries(<<>>)
    ELSE LET k == ks[i]
             this(kp) ==
                 IF ObjectContains(obj, k) THEN Entries(<<>>)
                 ELSE IF "kind" \in DOMAIN kp THEN DiffPanic
                 ELSE Entries(<<EditEntry("assoc", kp, new.store[k])>>)
         IN  Cat(this(push(p, k)), ObjectDiffNew(obj, new, p, ks, i + 1))

\* (*Object).diff
ObjectDiff(obj, new, p) ==
    IF new.kind = "nil" THEN Entries(<<>>)
    ELSE IF new.kind = "object"
    THEN Cat(ObjectDiffOld(obj, new, p, Keys(obj.store), 1),
             ObjectDiffNew(obj, new, p, Keys(new.store), 1))
    ELSE Entries(<<EditEntry("assoc", p, new)>>)

\* The first Range of (*Array).diff: an element at an index other has too
\* is diffed against it, an element beyond other's length is deleted.
ArrayDiffOld(arr, new, p, i) ==
    IF i >= Len(arr.vec) THEN Entries(<<>>)
    ELSE LET ip == addPosPredicate(p, i)
             this == IF ArrayContains(new, i)
                     THEN ValueDiff(arr.vec[i + 1], ArrayAt(new, i), ip)
                     ELSE Entries(<<EditEntry("delete", ip, Nil)>>)
         IN  Cat(this, ArrayDiffOld(arr, new, p, i + 1))

\* The second Range of (*Array).diff: an element beyond arr's length is
\* assoc'd.
RECURSIVE ArrayDiffNew(_, _, _, _)
ArrayDiffNew(arr, new, p, i) ==
    IF i >= Len(new.vec) THEN Entries(<<>>)
    ELSE Cat(IF ArrayContains(arr, i) THEN Entries(<<>>)
             ELSE Entries(<<EditEntry("assoc", addPosPredicate(p, i),
                                      new.vec[i + 1])>>),
             ArrayDiffNew(arr, new, p, i + 1))

\* (*Array).diff
ArrayDiff(arr, new, p) ==
    IF new.kind = "nil" THEN Entries(<<>>)
    ELSE IF new.kind = "array"
    THEN Cat(ArrayDiffOld(arr, new, p, 0), ArrayDiffNew(arr, new, p, 0))
    ELSE Entries(<<EditEntry("assoc", p, new)>>)

\* (*Value).diff
ValueDiff(old, new, p) ==
    CASE old.kind = "object" -> ObjectDiff(old, new, p)
      [] old.kind = "array" -> ArrayDiff(old, new, p)
      [] OTHER -> IF Equal(old, new) THEN Entries(<<>>)
                  ELSE Entries(<<EditEntry("assoc", p, new)>>)

\* EditOperation{Actions}
EditOperation(actions) == [actions |-> actions]

\* (*Tree).Diff: the EditOperation, or Panic.
TreeDiff(t, o) ==
    LET operation(d) == IF d.panic THEN Panic ELSE EditOperation(d.out)
    IN  operation(ValueDiff(t, o, InstanceID(<<>>)))

(***************************************************************************)
(* Edit                                                                    *)
(***************************************************************************)

\* The function of (*EditEntry).evalAssoc
evalAssoc(e, t) == TreeAssoc(t, e.path, e.value)

\* The function of (*EditEntry).evalDelete
evalDelete(e, t) == TreeDelete(t, e.path)

\* The function of (*EditEntry).evalMerge; Merge on the nil value of a
\* path that does not resolve panics.
evalMerge(e, t) ==
    LET assoc(merged) ==
            IF merged.kind \in {"nil", "panic"} THEN Panic
            ELSE TreeAssoc(t, e.path, merged)
        merge(v) ==
            IF v.kind \in {"nil", "panic"} THEN Panic
            ELSE assoc(ValueMerge(v, e.value))
    IN  merge(TreeAt(t, e.path))

EditActions == {"assoc", "delete", "merge"}

\* (*EditAction).UnmarshalRFC7951 of a decoded string: an unknown action is
\* an error and leaves the EditAction as it was, the zero value.
EditActionUnmarshal(s) ==
    IF s \in EditActions THEN [action |-> s, err |-> FALSE]
    ELSE [action |-> "", err |-> TRUE]

\* EditAction.MarshalRFC7951: the quoted action, or an error
EditActionMarshal(e) ==
    IF e \in EditActions THEN [b |-> <<"\"", e, "\"">>, err |-> FALSE]
    ELSE [b |-> <<>>, err |-> TRUE]

\* Decoding an EditOperation: the entries are decoded in order and the
\* first error ends the decoding.
RECURSIVE EditOperationDecode(_, _, _)
EditOperationDecode(doc, i, out) ==
    IF i > Len(doc) THEN [op |-> EditOperation(out), err |-> FALSE]
    ELSE LET entry(a) ==
                 IF a.err THEN [op |-> EditOperation(out), err |-> TRUE]
                 ELSE EditOperationDecode(doc, i + 1,
                          Append(out, [doc[i] EXCEPT !.action = a.action]))
         IN  entry(EditActionUnmarshal(doc[i].action))

\* Encoding an EditOperation: the entries are encoded in order and the
\* first error ends the encoding.
RECURSIVE EditOperationEncode(_, _, _)
EditOperationEncode(actions, i, out) ==
    IF i > Len(actions) THEN [b |-> out, err |-> FALSE]
    ELSE LET entry(a) ==
                 IF a.err THEN [b |-> <<>>, err |-> TRUE]
                 ELSE EditOperationEncode(actions, i + 1, out \o a.b)
         IN  entry(EditActionMarshal(actions[i].action))

\* The function (*EditEntry).eval returns, applied to a tree; eval itself
\* panics on an unknown action.
entryEval(e, t) ==
    CASE e.action = "assoc" -> evalAssoc(e, t)
      [] e.action = "delete" -> evalDelete(e, t)
      [] e.action = "merge" -> evalMerge(e, t)
      [] OTHER -> Panic

\* An application loop that gives every entry the tree Edit was called on,
\* against which C11 is checked to fail
applyActionsToFirst(actions, i, t) ==
    IF i > Len(actions) THEN t ELSE entryEval(actions[Len(actions)], t)

\* The function (*EditOperation).eval returns: the entries applied in order
RECURSIVE applyActions(_, _, _)
applyActions(actions, i, t) ==
    IF IsPanic(t) \/ i > Len(actions) THEN t
    ELSE applyActions(actions, i + 1, entryEval(actions[i], t))

\* An eval that builds the function of an entry only when the entry is
\* applied, against which C12 is checked to fail
EditOperationEvalLazy(edit) == [panic |-> FALSE, actions |-> edit.actions]

\* (*EditOperation).eval: the functions of all the entries are built, which
\* panics on an unknown action, before the function that applies them is
\* returned.
EditOperationEval(edit) ==
    IF \E i \in 1..Len(edit.actions) : edit.actions[i].action \notin EditActions
    THEN [panic |-> TRUE, actions |-> <<>>]
    ELSE [panic |-> FALSE, actions |-> edit.actions]

\* (*Tree).Edit
TreeEdit(t, edit) ==
    LET apply(built) ==
            IF built.panic THEN Panic ELSE applyActions(built.actions, 1, t)
    IN  apply(EditOperationEval(edit))

(***************************************************************************)
(* Marshal                                                                 *)
(***************************************************************************)

RECURSIVE ValueMarshal(_, _)
RECURSIVE ObjectMarshal(_, _)
RECURSIVE ArrayMarshal(_, _)

\* (*Object).marshalRFC7951: a key is written without its module when that
\* is the module of the context; the member is written in the key's module.
ObjectMarshal(obj, module) ==
    LET ks == Keys(obj.store)
        written(i, mk) ==
            <<"\"">> \o (IF mk[1] = module THEN mk[2] ELSE ks[i])
            \o <<"\"", ":">>
            \o ValueMarshal(obj.store[ks[i]], mk[1])
            \o (IF i < Len(ks) THEN <<",">> ELSE <<>>)
        member(i) == written(i, parseKey(obj, ks[i]))
        members[i \in 0..Len(ks)] ==
            IF i = 0 THEN <<>> ELSE members[i - 1] \o member(i)
    IN  <<"{">> \o members[Len(ks)] \o <<"}">>

\* (*Array).marshalRFC7951
ArrayMarshal(arr, module) ==
    LET n == Len(arr.vec)
        elems[i \in 0..n] ==
            IF i = 0 THEN <<>>
            ELSE elems[i - 1] \o ValueMarshal(arr.vec[i], module)
                 \o (IF i < n THEN <<",">> ELSE <<>>)
    IN  <<"[">> \o elems[n] \o <<"]">>

\* (*Value).marshalRFC7951: 64-bit integers, floats and strings are quoted.
ValueMarshal(v, module) ==
    CASE v.kind = "object" -> ObjectMarshal(v, module)
      [] v.kind = "array" -> ArrayMarshal(v, module)
      [] v.kind \in {"uint64", "int64", "float64", "string"} ->
            <<"\"">> \o RFC7951String(v) \o <<"\"">>
      [] OTHER -> RFC7951String(v)

\* (*Tree).MarshalRFC7951
TreeMarshal(t) == ValueMarshal(t, EmptyStr)

(***************************************************************************)
(* Unmarshal                                                               *)
(***************************************************************************)

\* The codec's decoding of a message into raw messages: the texts between
\* the commas of s that lie outside strings, objects and arrays.
splitTop(s) ==
    LET n == Len(s)
        \* the backslashes that immediately precede position j
        run(j) == j - 1 - (CHOOSE x \in 0..(j - 1) :
                              /\ x = 0 \/ s[x] # "\\"
                              /\ \A y \in (x + 1)..(j - 1) : s[y] = "\\")
        quotes == {j \in 1..n : s[j] = "\"" /\ run(j) % 2 = 0}
        inStr(j) == Cardinality({q \in quotes : q < j}) % 2 = 1
        opens == {j \in 1..n : s[j] \in {"{", "["} /\ ~inStr(j)}
        closes == {j \in 1..n : s[j] \in {"}", "]"} /\ ~inStr(j)}
        depth(j) == Cardinality({x \in opens : x < j})
                    - Cardinality({x \in closes : x < j})
        commas == {j \in 1..n : s[j] = "," /\ ~inStr(j) /\ depth(j) = 0}
        \* the k-th comma; 0 before the first and n + 1 after the last
        comma(k) == IF k = 0 THEN 0
                    ELSE IF k > Cardinality(commas) THEN n + 1
                    ELSE CHOOSE c \in commas :
                             Cardinality({d \in commas : d < c}) = k - 1
        trimmed(parts) ==
            IF parts[Len(parts)] = <<>> THEN SubSeq(parts, 1, Len(parts) - 1)
            ELSE parts
    IN  trimmed([k \in 1..(Cardinality(commas) + 1) |->
                    SubSeq(s, comma(k - 1) + 1, comma(k) - 1)])

\* rfc7951.Unmarshal into []RawMessage: the raw elements of "[...]"
RawElements(msg) == splitTop(SubSeq(msg, 2, Len(msg) - 1))

\* rfc7951.Unmarshal into map[string]RawMessage: the <<key, raw value>>
\* pairs of "{...}"
RawMembers(msg) ==
    LET member(part, q) ==
            <<SubSeq(part, 2, q - 1), SubSeq(part, q + 2, Len(part))>>
        members(parts) ==
            [i \in 1..Len(parts) |->
                member(parts[i], IndexFrom(parts[i], "\"", 2))]
    IN  members(RawElements(msg))

\* strconv.Unquote of a double-quoted text, for the escapes \" \\ \n \t:
\* [ok, s]
RECURSIVE unquoteBody(_, _, _)
unquoteBody(s, i, out) ==
    IF i > Len(s) THEN [ok |-> TRUE, s |-> out]
    ELSE IF s[i] = "\"" \/ s[i] = "\n" THEN [ok |-> FALSE, s |-> <<>>]
    ELSE IF s[i] # "\\" THEN unquoteBody(s, i + 1, Append(out, s[i]))
    ELSE IF i = Len(s) THEN [ok |-> FALSE, s |-> <<>>]
    ELSE CASE s[i + 1] \in {"\"", "\\"} ->
                 unquoteBody(s, i + 2, Append(out, s[i + 1]))
           [] s[i + 1] = "n" -> unquoteBody(s, i + 2, Append(out, "\n"))
           [] s[i + 1] = "t" -> unquoteBody(s, i + 2, Append(out, "\t"))
           [] OTHER -> [ok |-> FALSE, s |-> <<>>]

Unquote(msg) ==
    IF Len(msg) < 2 \/ msg[1] # "\"" \/ msg[Len(msg)] # "\"" 
    THEN [ok |-> FALSE, s |-> <<>>]
    ELSE unquoteBody(SubSeq(msg, 2, Len(msg) - 1), 1, <<>>)

\* The quoted-scalar case of (*Value).unmarshalRFC7951 on the unquoted
\* item.  A float that parses is assigned, and the integer parse that
\* follows without a return then fails on the '.', which leaves the string.
quotedScalar(item) ==
    IF item = <<>> THEN Str(item)
    ELSE LET c == item[1]
             signed == c \in {"-", "+"} /\ Len(item) >= 2
             digits == IF signed THEN Tail(item) ELSE item
         IN  IF ~signed /\ ~IsDigit(c) THEN Str(item)
             ELSE IF signed /\ ~IsDigit(item[2]) THEN Str(item)
             ELSE IF ContainsRune(item, ".") THEN Str(item)
             ELSE IF ~IsUintText(digits) THEN Str(item)
             ELSE IF c = "-" THEN I64(0 - ParseUint(digits))
             ELSE U64(ParseUint(digits))

RECURSIVE ValueUnmarshal(_, _, _)

\* (*Object).unmarshalRFC7951: every member is decoded in the module of its
\* key and stored under the qualified key; a member's error is dropped.
ObjectUnmarshal(msg, module) ==
    LET obj == Obj(module, EmptyStore)
        decoded(member, mod) ==
            ObjectAdaptValue(obj, member[1],
                             ValueUnmarshal(Null, member[2], mod).v)
        assoc(store, kv) == StoreAssoc(store, kv[1], kv[2])
        members(m) ==
            LET store[i \in 0..Len(m)] ==
                    IF i = 0 THEN EmptyStore
                    ELSE assoc(store[i - 1],
                               decoded(m[i], parseKey(obj, m[i][1])[1]))
            IN  Obj(module, store[Len(m)])
    IN  members(RawMembers(msg))

\* (*Array).unmarshalRFC7951
ArrayUnmarshal(msg, module) ==
    LET elements(a) ==
            Arr(module,
                [i \in 1..Len(a) |->
                    ValueBelongsTo(ValueUnmarshal(Null, a[i], module).v,
                                   module)])
    IN  elements(RawElements(msg))

\* (*Value).unmarshalRFC7951 on a value that holds old: [v, err]
ValueUnmarshal(old, msg, module) ==
    IF Len(msg) = 0 THEN [v |-> old, err |-> FALSE]
    ELSE LET c == msg[1]
         IN  CASE c = "{" -> [v |-> ObjectUnmarshal(msg, module), err |-> FALSE]
               [] c = "[" ->
                    LET decoded(arr) ==
                            IF ArrayLength(arr) = 1
                               /\ Equal(ArrayAt(arr, 0), Null)
                            THEN [v |-> Empty, err |-> FALSE]
                            ELSE [v |-> arr, err |-> FALSE]
                    IN  decoded(ArrayUnmarshal(msg, module))
               [] c = "n" -> [v |-> Null, err |-> FALSE]
               [] c \in {"t", "f"} -> [v |-> Bool(c = "t"), err |-> FALSE]
               [] c = "\"" ->
                    LET decoded(item) ==
                            IF ~item.ok THEN [v |-> old, err |-> TRUE]
                            ELSE [v |-> quotedScalar(item.s), err |-> FALSE]
                    IN  decoded(Unquote(msg))
               [] c = "-" ->
                    IF IsUintText(Tail(msg))
                    THEN [v |-> I32(0 - ParseUint(Tail(msg))), err |-> FALSE]
                    ELSE [v |-> old, err |-> TRUE]
               [] OTHER ->
                    IF IsUintText(msg)
                    THEN [v |-> U32(ParseUint(msg)), err |-> FALSE]
                    ELSE [v |-> old, err |-> TRUE]

\* (*Tree).UnmarshalRFC7951 into TreeNew(): the root after it, or the error
TreeUnmarshal(msg) ==
    LET root(r) == IF r.err THEN [kind |-> "error"] ELSE r.v
    IN  root(ValueUnmarshal(ObjectNew, msg, EmptyStr))

(***************************************************************************)
(* Bounded inputs                                                          *)
(***************************************************************************)

\* The longest array, and the largest number, among the inputs
MaxArrLen == 2
MaxNum == 2

\* An input that an operation does not take
None == [kind |-> "none"]

SeqsUpTo(S, n) == UNION {[1..k -> S] : k \in 0..n}

\* Keys: "m:ll" a leaf-list, "m:l" a list, "m:c" a container, "n:x" a leaf
\* of a second module; "k", "v" and "d" are members written without module.
KLL == <<"m", ":", "l", "l">>
KL == <<"m", ":", "l">>
KC == <<"m", ":", "c">>
KX == <<"n", ":", "x">>

Nums == {U32(n) : n \in 1..MaxNum}
Leaves == Nums \cup {Str(<<"a">>)}

\* ObjectWith(PairNew(k, v)) and TreeFromObject of it
ObjectWith1(k, v) == ObjectAssoc(ObjectNew, k, v)
ObjectWith2(k1, v1, k2, v2) == ObjectAssoc(ObjectWith1(k1, v1), k2, v2)

\* ArrayWith(elements...)
ArrayWith(s) == [ArrayNew EXCEPT !.vec =
                    [i \in 1..Len(s) |-> ArrayAdaptValue(ArrayNew, s[i])]]

\* Leaf-lists, list entries with key k (and a member v), lists
LeafLists == {ArrayWith(s) : s \in SeqsUpTo(Nums, MaxArrLen)}
ListEntries == {ObjectWith1(<<"k">>, k) : k \in {Str(<<"a">>), U32(1)}}
               \cup {ObjectWith2(<<"k">>, Str(<<"a">>), <<"v">>, U32(1))}
Lists == {ArrayWith(s) : s \in SeqsUpTo(ListEntries, MaxArrLen)}
Containers == {ObjectNew} \cup {ObjectWith1(<<"k">>, l) : l \in Leaves}

\* The trees the operations are applied to: the empty tree, and trees that
\* hold a leaf-list, a list, a container or a leaf, and a leaf of module n.
DiffValues == Leaves \cup LeafLists \cup Lists \cup Containers
DiffTrees ==
    {ObjectNew}
    \cup {ObjectWith1(KC, v) : v \in DiffValues}
    \cup {ObjectWith2(KC, v, KX, U32(1)) : v \in LeafLists}

(***************************************************************************)
(* Diff then Edit                                                          *)
(***************************************************************************)

InitDiff ==
    /\ pc = "start"
    /\ op = "none"
    /\ tree \in DiffTrees
    /\ other \in DiffTrees
    /\ iid = None
    /\ val = None
    /\ result = None
    /\ trees = <<>>

\* diff := tree.Diff(other)
Diff ==
    /\ pc = "start"
    /\ pc' = "diffed"
    /\ op' = "Diff"
    /\ result' = TreeDiff(tree, other)
    /\ UNCHANGED <<tree, other, iid, val, trees>>

\* tree.Edit(diff)
Edit ==
    /\ pc = "diffed"
    /\ ~IsPanicOutcome(result)
    /\ pc' = "edited"
    /\ op' = "Edit"
    /\ result' = TreeEdit(tree, result)
    /\ UNCHANGED <<tree, other, iid, val, trees>>

NextDiff == Diff \/ Edit

SpecDiff == InitDiff /\ [][NextDiff]_vars

\* C1: for any two trees a and b, a.Edit(a.Diff(b)) is a tree equal to b.
C1_DiffEditDuality ==
    pc = "edited" => (~IsPanicOutcome(result) /\ Equal(result, other))

(***************************************************************************)
(* Assoc                                                                   *)
(***************************************************************************)

\* "/m:ll[i]", a position in the leaf-list
PathLLPos(i) == InstanceIDNew(<<"/", "m", ":", "l", "l", "[">> \o FormatUint(i) \o <<"]">>)

\* The instance-identifiers of the calls: keys, keys through interior nodes
\* that may not exist, positions up to past the end, a '.' predicate, and
\* key predicates that match an entry, a number, or none.
Paths ==
    {PathLLPos(i) : i \in 0..(MaxArrLen + 1)}
    \cup {InstanceIDNew(x) : x \in {
            <<"/", "m", ":", "c">>,
            <<"/", "m", ":", "c", "/", "k">>,
            <<"/", "m", ":", "c", "/", "d", "/", "k">>,
            <<"/", "m", ":", "l", "l">>,
            <<"/", "m", ":", "l", "l", "[", ".", "=", "'", "1", "'", "]">>,
            <<"/", "m", ":", "l">>,
            <<"/", "m", ":", "l", "[", "k", "=", "'", "a", "'", "]">>,
            <<"/", "m", ":", "l", "[", "k", "=", "'", "1", "'", "]">>,
            <<"/", "m", ":", "l", "[", "k", "=", "'", "b", "'", "]">>,
            <<"/", "m", ":", "l", "[", "k", "=", "'", "a", "'", "]", "/", "v">>,
            <<"/", "n", ":", "x">>}}

\* The trees of the calls: empty, or holding a leaf-list, a list or a
\* container.
Trees ==
    {ObjectNew}
    \cup {ObjectWith1(KLL, v) : v \in LeafLists}
    \cup {ObjectWith1(KL, v) : v \in Lists}
    \cup {ObjectWith1(KC, v) : v \in Containers}

\* The values of the calls: leaves, Objects as ObjectWith builds them, and
\* an Object of module m as At returns it from a tree.
Values ==
    Leaves \cup {ObjectNew, ObjectWith1(<<"k">>, Str(<<"a">>)),
                 ObjectBelongsTo(ObjectWith1(<<"k">>, Str(<<"a">>)), <<"m">>)}

InitAssoc ==
    /\ pc = "start"
    /\ op = "none"
    /\ tree \in Trees
    /\ other = None
    /\ iid \in Paths
    /\ val \in Values
    /\ result = None
    /\ trees = <<>>

\* tree.Assoc(iid, val)
Assoc ==
    /\ pc = "start"
    /\ pc' = "assoced"
    /\ op' = "Assoc"
    /\ result' = TreeAssoc(tree, iid, val)
    /\ UNCHANGED <<tree, other, iid, val, trees>>

\* tree.Assoc(iid, tree.At(iid)) for a path that resolves
Reassoc ==
    /\ pc = "start"
    /\ TreeFind(tree, iid).found
    /\ pc' = "reassoced"
    /\ op' = "Assoc"
    /\ result' = TreeAssoc(tree, iid, TreeAt(tree, iid))
    /\ UNCHANGED <<tree, other, iid, val, trees>>

NextAssoc == Assoc \/ Reassoc

SpecAssoc == InitAssoc /\ [][NextAssoc]_vars

\* C2: for any tree t, well-formed instance-identifier p and value v,
\* t.Assoc(p, v).At(p) equals v.
C2_AssocThenAt ==
    pc = "assoced" =>
        /\ ~IsPanic(result)
        /\ TreeAt(result, iid).kind \notin {"nil", "panic"}
        /\ Equal(TreeAt(result, iid), val)

\* C5: for any tree t and path p that resolves in t, t.Assoc(p, t.At(p)) is
\* equal to t.
C5_AssocOfAtIsIdentity ==
    pc = "reassoced" => (~IsPanic(result) /\ Equal(result, tree))

(***************************************************************************)
(* Marshal then Unmarshal                                                  *)
(***************************************************************************)

\* The leaves of the encoded trees: strings, one of them a numeral, a float,
\* 64-bit and 32-bit integers of both signs, a boolean, null and empty.
CodecLeaves ==
    {Str(<<"a">>), Str(<<"1">>), F64(15), U64(3), I64(0 - 3), U32(1),
     I32(0 - 1), Bool(TRUE), Null, Empty}

CodecArrays ==
    {ArrayWith(s) : s \in SeqsUpTo({U32(1), Str(<<"a">>), Null}, MaxArrLen)}

CodecContainers == {ObjectWith1(<<"k">>, l) : l \in CodecLeaves}

\* The encoded trees: empty, one member of module m, or one member of each
\* of the modules m and n.
CodecTrees ==
    {ObjectNew}
    \cup {ObjectWith1(KC, v) :
            v \in CodecLeaves \cup CodecArrays \cup CodecContainers}
    \cup {ObjectWith2(KC, v, KX, w) :
            v \in CodecContainers, w \in {U32(1), Str(<<"a">>)}}

\* The bytes of a message
Bytes(b) == [kind |-> "bytes", b |-> b]

InitCodec ==
    /\ pc = "start"
    /\ op = "none"
    /\ tree \in CodecTrees
    /\ other = None
    /\ iid = None
    /\ val = None
    /\ result = None
    /\ trees = <<>>

\* val := tree.MarshalRFC7951()
Marshal ==
    /\ pc = "start"
    /\ pc' = "marshalled"
    /\ op' = "Marshal"
    /\ val' = Bytes(TreeMarshal(tree))
    /\ UNCHANGED <<tree, other, iid, result, trees>>

\* result := TreeNew(); result.UnmarshalRFC7951(val)
Unmarshal ==
    /\ pc = "marshalled"
    /\ pc' = "unmarshalled"
    /\ op' = "Unmarshal"
    /\ result' = TreeUnmarshal(val.b)
    /\ UNCHANGED <<tree, other, iid, val, trees>>

NextCodec == Marshal \/ Unmarshal

SpecCodec == InitCodec /\ [][NextCodec]_vars

\* C4: for any Tree t, unmarshalling the bytes produced by marshalling t
\* yields a tree equal to t.
C4_CodecRoundTrip ==
    pc = "unmarshalled" => (result.kind = "object" /\ Equal(result, tree))

(***************************************************************************)
(* Delete                                                                  *)
(***************************************************************************)

\* The trees of the Delete calls: those of Assoc, and a list whose entry
\* holds a leaf-list under the name the key predicates compare.
DeleteTrees ==
    Trees \cup {ObjectWith1(KL,
                  ArrayWith(<<ObjectWith1(<<"k">>, ArrayWith(<<U32(1)>>))>>))}

InitDelete ==
    /\ pc = "start"
    /\ op = "none"
    /\ tree \in DeleteTrees
    /\ other = None
    /\ iid \in Paths
    /\ val = None
    /\ result = None
    /\ trees = <<>>

\* tree.Delete(iid)
Delete ==
    /\ pc = "start"
    /\ pc' = "deleted"
    /\ op' = "Delete"
    /\ result' = TreeDelete(tree, iid)
    /\ UNCHANGED <<tree, other, iid, val, trees>>

NextDelete == Delete

SpecDelete == InitDelete /\ [][NextDelete]_vars

\* C6: for any tree t and path p that does not resolve in t, t.Delete(p)
\* does not fail and returns a tree equal to t (so no ancestor is created).
C6_DeleteAbsentIsNoOp ==
    (pc = "deleted" /\ ~TreeFind(tree, iid).found) =>
        (~IsPanic(result) /\ Equal(result, tree))

\* Whether the instance-identifier ends in a positional predicate, and the
\* position
EndsInPos(i) ==
    LET last == i.ids[Len(i.ids)].predicates
    IN  ~last.isNil /\ last.preds[Len(last.preds)].kind = "pos"

EndPos(i) ==
    LET last == i.ids[Len(i.ids)].predicates
    IN  last.preds[Len(last.preds)].pos

\* C7: for any tree t and path p that resolves in t, t.Delete(p) removes
\* exactly the addressed node: the parent stays; after a positional predicate
\* [i] the array is one shorter and the elements after i have moved down;
\* after a key or an expression predicate p no longer resolves and the other
\* members of the parent are as they were.
C7_DeleteRemovesAddressed ==
    (pc = "deleted" /\ TreeFind(tree, iid).found) =>
        /\ ~IsPanic(result)
        /\ LET before == TreeAt(tree, path(iid))
               after == TreeAt(result, path(iid))
           IN  /\ after.kind = before.kind
               /\ after.module = before.module
               /\ IF before.kind = "array"
                  THEN /\ Len(after.vec) = Len(before.vec) - 1
                       /\ \E i \in 0..(Len(before.vec) - 1) :
                            /\ EndsInPos(iid) => i = EndPos(iid)
                            /\ \A j \in 1..Len(after.vec) :
                                 after.vec[j] =
                                     before.vec[IF j <= i THEN j ELSE j + 1]
                  ELSE /\ DOMAIN after.store \subseteq DOMAIN before.store
                       /\ Cardinality(DOMAIN after.store) =
                              Cardinality(DOMAIN before.store) - 1
                       /\ \A k \in DOMAIN after.store :
                              after.store[k] = before.store[k]
               /\ EndsInPos(iid) \/ ~TreeFind(result, iid).found

(***************************************************************************)
(* Value.Merge                                                             *)
(***************************************************************************)

\* The merged values: leaves, leaf-lists, a list, and containers both as
\* ObjectWith builds them (no module) and as a tree of module m holds them.
MergeValues ==
    Leaves \cup LeafLists \cup Containers
    \cup {ObjectBelongsTo(c, <<"m">>) : c \in Containers}
    \cup {ObjectWith2(<<"k">>, U32(1), <<"v">>, U32(2)),
          ObjectWith1(<<"v">>, ObjectWith1(<<"k">>, U32(1))),
          ObjectWith1(<<"v">>, ObjectWith1(<<"d">>, U32(2))),
          ArrayWith(<<ObjectWith1(<<"k">>, Str(<<"a">>))>>)}

InitMerge ==
    /\ pc = "start"
    /\ op = "none"
    /\ tree \in MergeValues
    /\ other \in MergeValues
    /\ iid = None
    /\ val = None
    /\ result = None
    /\ trees = <<>>

\* tree.Merge(other), tree and other being Values
Merge ==
    /\ pc = "start"
    /\ pc' = "merged"
    /\ op' = "Merge"
    /\ result' = ValueMerge(tree, other)
    /\ UNCHANGED <<tree, other, iid, val, trees>>

NextMerge == Merge

SpecMerge == InitMerge /\ [][NextMerge]_vars

\* C8: Value.Merge of two Objects, or of two Arrays, is accretive: a key
\* (index) of both holds the merge of the two members, a key (index) of other
\* alone holds other's member, a key (index) of self alone keeps self's; the
\* merged array is as long as the longer of the two.
C8_MergeAccretive ==
    (pc = "merged" /\ tree.kind = other.kind) =>
        /\ tree.kind = "object" =>
             /\ result.kind = "object"
             /\ \A k \in DOMAIN other.store :
                  /\ ObjectContains(result, k)
                  /\ ObjectAt(result, k) =
                       IF ObjectContains(tree, k)
                       THEN ValueMerge(ObjectAt(tree, k), other.store[k])
                       ELSE ObjectAdaptValue(tree, k, other.store[k])[2]
             /\ \A k \in DOMAIN tree.store :
                  /\ ObjectContains(result, k)
                  /\ ~ObjectContains(other, k) =>
                       ObjectAt(result, k) = tree.store[k]
        /\ tree.kind = "array" =>
             /\ result.kind = "array"
             /\ Len(result.vec) =
                  IF Len(tree.vec) >= Len(other.vec) THEN Len(tree.vec)
                  ELSE Len(other.vec)
             /\ \A i \in 1..Len(result.vec) :
                  result.vec[i] =
                      IF i <= Len(tree.vec) /\ i <= Len(other.vec)
                      THEN ValueMerge(tree.vec[i], other.vec[i])
                      ELSE IF i <= Len(tree.vec) THEN tree.vec[i]
                      ELSE ArrayAdaptValue(tree, other.vec[i])

\* Object, Array or leaf
KindClass(v) == IF v.kind \in {"object", "array"} THEN v.kind ELSE "leaf"

\* C9: merging two Values of unlike kinds returns self unchanged, whichever
\* of the two is the container; merging a leaf with a leaf returns other.
C9_MergeUnlikeKeepsSelf ==
    pc = "merged" =>
        /\ KindClass(tree) # KindClass(other) => Equal(result, tree)
        /\ (IsLeaf(tree) /\ IsLeaf(other)) => Equal(result, other)

\* C9, amended: merging an Object or an Array with a Value of an unlike kind
\* returns self unchanged; merging a leaf with any Value, leaf or container,
\* returns the other Value.
C9_MergeUnlike ==
    pc = "merged" =>
        /\ (~IsLeaf(tree) /\ KindClass(tree) # KindClass(other))
               => Equal(result, tree)
        /\ IsLeaf(tree) => Equal(result, other)

\* A leaf has been merged with an Object and the Object is the result.
C9_Witness ==
    /\ pc = "merged"
    /\ IsLeaf(tree)
    /\ other.kind = "object"
    /\ DOMAIN other.store # {}
    /\ Equal(result, other)

(***************************************************************************)
(* Tree.Merge                                                              *)
(***************************************************************************)

\* The merged trees: empty, a leaf, a leaf-list, a list or a container under
\* m:c, alone or with a leaf of module n.
MergeMembers ==
    Leaves \cup LeafLists \cup Containers
    \cup {ObjectWith1(<<"d">>, U32(1)),
          ObjectWith2(<<"k">>, U32(1), <<"d">>, U32(2)),
          ArrayWith(<<ObjectWith1(<<"k">>, Str(<<"a">>))>>),
          ArrayWith(<<ObjectWith1(<<"k">>, U32(1)),
                      ObjectWith1(<<"v">>, U32(2))>>)}

MergeTrees ==
    {ObjectNew}
    \cup {ObjectWith1(KC, v) : v \in MergeMembers}
    \cup {ObjectWith2(KC, v, KX, U32(1)) : v \in LeafLists}

InitTreeMerge ==
    /\ pc = "start"
    /\ op = "none"
    /\ tree \in MergeTrees
    /\ other \in MergeTrees
    /\ iid = None
    /\ val = None
    /\ result = None
    /\ trees = <<>>

\* tree.Merge(other), tree and other being Trees
MergeTree ==
    /\ pc = "start"
    /\ pc' = "merged"
    /\ op' = "Merge"
    /\ result' = TreeMerge(tree, other)
    /\ UNCHANGED <<tree, other, iid, val, trees>>

NextTreeMerge == MergeTree

SpecTreeMerge == InitTreeMerge /\ [][NextTreeMerge]_vars

\* The leaf paths of a value: the instance-identifiers, built from keys and
\* positions as the diff builds them, of the leaves below it.
RECURSIVE LeafPathsFrom(_, _)
LeafPathsFrom(v, p) ==
    IF v.kind = "object"
    THEN UNION {LeafPathsFrom(v.store[k], push(p, k)) : k \in DOMAIN v.store}
    ELSE IF v.kind = "array"
    THEN UNION {LeafPathsFrom(v.vec[i], addPosPredicate(p, i - 1)) :
                    i \in 1..Len(v.vec)}
    ELSE {p}

LeafPaths(t) == LeafPathsFrom(t, InstanceID(<<>>))

\* Whether two values are of like kind, and so are the members they hold
\* under every key and at every index they have in common.
RECURSIVE LikeKinds(_, _)
LikeKinds(a, b) ==
    /\ KindClass(a) = KindClass(b)
    /\ a.kind = "object" =>
         \A k \in (DOMAIN a.store) \cap (DOMAIN b.store) :
             LikeKinds(a.store[k], b.store[k])
    /\ a.kind = "array" =>
         \A i \in (1..Len(a.vec)) \cap (1..Len(b.vec)) :
             LikeKinds(a.vec[i], b.vec[i])

\* The merged tree holds a leaf at every leaf path of tree or of other, and
\* other's value at every leaf path of both.
MergeHoldsLeafPaths ==
    /\ ~IsPanic(result)
    /\ \A p \in LeafPaths(tree) \cup LeafPaths(other) :
         p \in LeafPaths(result)
    /\ \A p \in LeafPaths(tree) \cap LeafPaths(other) :
         Equal(TreeAt(result, p), TreeAt(other, p))

\* C10, as stated: for any trees a and b, a.Merge(b) contains every leaf path
\* present in a or in b, and at every leaf path present in both the value is
\* b's.
C10_MergeMonotone_AsStated == pc = "merged" => MergeHoldsLeafPaths

\* C10: for any trees a and b that hold values of like kind (object, array
\* or leaf) at every path they have in common, a.Merge(b) contains every
\* leaf path present in a or in b, and at every leaf path present in both
\* the value is b's.
C10_MergeMonotone ==
    (pc = "merged" /\ LikeKinds(tree, other)) => MergeHoldsLeafPaths

\* A merge of like-kinded trees with a leaf path of both holding different
\* values, a leaf path of tree alone and a leaf path of other alone
C10_Witness ==
    /\ pc = "merged"
    /\ LikeKinds(tree, other)
    /\ LeafPaths(tree) \ LeafPaths(other) # {}
    /\ LeafPaths(other) \ LeafPaths(tree) # {}
    /\ \E p \in LeafPaths(tree) \cap LeafPaths(other) :
         ~Equal(TreeAt(tree, p), TreeAt(other, p))

(***************************************************************************)
(* Trees derived from trees                                                *)
(***************************************************************************)

\* The number of trees a run allocates
MaxTrees == 3

\* The first tree of a run, and the path and value of its Assoc and Delete
\* calls
SharedTrees ==
    {ObjectNew,
     ObjectWith1(KLL, ArrayWith(<<U32(1), U32(2)>>)),
     ObjectWith1(KC, ObjectWith1(<<"k">>, Str(<<"a">>))),
     ObjectWith1(KL, ArrayWith(<<ObjectWith2(<<"k">>, Str(<<"a">>),
                                             <<"v">>, U32(1))>>))}

SharedPaths ==
    {PathLLPos(0)}
    \cup {InstanceIDNew(x) : x \in {
            <<"/", "m", ":", "c", "/", "k">>,
            <<"/", "m", ":", "l", "[", "k", "=", "'", "a", "'", "]", "/", "v">>,
            <<"/", "n", ":", "x">>}}

SharedValues == {U32(2), ObjectWith1(<<"k">>, U32(1))}

\* trees holds the root of every Tree allocated so far; tree and other are
\* the indices in it of the receiver and of the argument of the last call,
\* result the index of the Tree the call returned.
Init ==
    /\ pc = "ready"
    /\ op = "none"
    /\ tree = 0
    /\ other = 0
    /\ iid \in SharedPaths
    /\ val \in SharedValues
    /\ result = 0
    /\ trees \in {<<t>> : t \in SharedTrees}

\* trees[t].Assoc(iid, val)
AssocCall(t) ==
    LET call(r) ==
            /\ op' = "Assoc"
            /\ tree' = t
            /\ other' = 0
            /\ IF IsPanic(r) THEN result' = 0 /\ trees' = trees
               ELSE /\ result' = Len(trees) + 1
                    /\ trees' = TreeFromObject(trees, t, r)
            /\ UNCHANGED <<pc, iid, val>>
    IN  call(TreeAssoc(trees[t], iid, val))

\* trees[t].Delete(iid): the tree itself when iid does not resolve in it
DeleteCall(t) ==
    LET call(r) ==
            /\ op' = "Delete"
            /\ tree' = t
            /\ other' = 0
            /\ IF IsPanic(r) THEN result' = 0 /\ trees' = trees
               ELSE IF ~TreeFind(trees[t], iid).found
               THEN result' = t /\ trees' = trees
               ELSE /\ result' = Len(trees) + 1
                    /\ trees' = TreeFromObject(trees, t, r)
            /\ UNCHANGED <<pc, iid, val>>
    IN  call(TreeDelete(trees[t], iid))

\* trees[t].Merge(trees[o])
MergeCall(t, o) ==
    LET call(r) ==
            /\ op' = "Merge"
            /\ tree' = t
            /\ other' = o
            /\ IF IsPanic(r) THEN result' = 0 /\ trees' = trees
               ELSE /\ result' = Len(trees) + 1
                    /\ trees' = TreeFromObject(trees, t, r)
            /\ UNCHANGED <<pc, iid, val>>
    IN  call(TreeMerge(trees[t], trees[o]))

\* trees[t].Edit(trees[t].Diff(trees[o])): the tree itself when the edit
\* operation has no actions
EditCall(t, o) ==
    LET call(edit, r) ==
            /\ op' = "Edit"
            /\ tree' = t
            /\ other' = o
            /\ IF IsPanic(r) THEN result' = 0 /\ trees' = trees
               ELSE IF Len(edit.actions) = 0
               THEN result' = t /\ trees' = trees
               ELSE /\ result' = Len(trees) + 1
                    /\ trees' = TreeFromObject(trees, t, r)
            /\ UNCHANGED <<pc, iid, val>>
        edited(edit) ==
            call(edit, IF IsPanicOutcome(edit) THEN Panic
                       ELSE TreeEdit(trees[t], edit))
    IN  edited(TreeDiff(trees[t], trees[o]))

\* The trees a call may be made on or with: no call is made once MaxTrees
\* trees are allocated.
Callable == IF Len(trees) < MaxTrees THEN 1..Len(trees) ELSE {}

Next ==
    \/ \E t \in Callable : AssocCall(t)
    \/ \E t \in Callable : DeleteCall(t)
    \/ \E t \in Callable, o \in Callable : MergeCall(t, o)
    \/ \E t \in Callable, o \in Callable : EditCall(t, o)

Spec == Init /\ [][Next]_vars

MaxEntries == 2

EditPaths ==
    {InstanceIDNew(x) : x \in {
        <<"/", "m", ":", "c">>,
        <<"/", "m", ":", "c", "/", "k">>,
        <<"/", "n", ":", "x">>}}

\* EditEntryNew(action, path, EditEntryValue(value)); a delete has no value
EditEntries ==
    {EditEntry("assoc", p, v) :
        p \in EditPaths, v \in {U32(1), ObjectWith1(<<"d">>, U32(2))}}
    \cup {EditEntry("merge", p, v) :
        p \in EditPaths, v \in {U32(2), ObjectWith1(<<"k">>, U32(2))}}
    \cup {EditEntry("delete", p, Nil) : p \in EditPaths}

EditTrees == {ObjectNew, ObjectWith1(KC, ObjectWith1(<<"k">>, U32(1)))}

InitEdit ==
    /\ pc = "start"
    /\ op = "none"
    /\ tree \in EditTrees
    /\ other = None
    /\ iid = None
    /\ val \in {EditOperation(es) : es \in SeqsUpTo(EditEntries, MaxEntries)}
    /\ result = None
    /\ trees = <<>>

\* tree.Edit(val)
EditWritten ==
    /\ pc = "start"
    /\ pc' = "edited"
    /\ op' = "Edit"
    /\ result' = TreeEdit(tree, val)
    /\ UNCHANGED <<tree, other, iid, val, trees>>

NextEdit == EditWritten

SpecEdit == InitEdit /\ [][NextEdit]_vars

\* One entry applied to a tree as its action says: Assoc(path, value),
\* Delete(path), or Assoc(path, At(path).Merge(value)); a failure stays one.
EntryApplied(e, t) ==
    LET merged(m) ==
            IF m.kind \in {"nil", "panic"} THEN Panic
            ELSE TreeAssoc(t, e.path, m)
        mergedAt(v) ==
            IF v.kind \in {"nil", "panic"} THEN Panic
            ELSE merged(ValueMerge(v, e.value))
    IN  IF IsPanic(t) THEN Panic
        ELSE IF e.action = "assoc" THEN TreeAssoc(t, e.path, e.value)
        ELSE IF e.action = "delete" THEN TreeDelete(t, e.path)
        ELSE mergedAt(TreeAt(t, e.path))

\* The first n entries applied from left to right, each to the tree the
\* one before it produced
RECURSIVE EditFold(_, _, _)
EditFold(t, es, n) ==
    IF n = 0 THEN t ELSE EntryApplied(es[n], EditFold(t, es, n - 1))

\* C11: Tree.Edit(op) applies op's entries strictly in list order, each to
\* the tree produced by the previous entry: the result is the left-to-right
\* fold of Assoc, Delete and Assoc-of-merge over the entries.
C11_EditInListOrder ==
    pc = "edited" => result = EditFold(tree, val.actions, Len(val.actions))

\* An edit of two entries has succeeded whose result differs from what the
\* entries give in the other order, and from what the last entry alone gives
\* on the original tree.
C11_Witness ==
    /\ pc = "edited"
    /\ Len(val.actions) = 2
    /\ ~IsPanic(result)
    /\ result # EntryApplied(val.actions[1],
                             EntryApplied(val.actions[2], tree))
    /\ result # EntryApplied(val.actions[2], tree)

(***************************************************************************)
(* EditOperations with unknown actions                                     *)
(***************************************************************************)

\* The action strings of the entries: the three actions and two that are
\* none of them
ActionTexts == EditActions \cup {"bogus", "Assoc"}

AnyEntries ==
    {EditEntry(a, InstanceIDNew(<<"/", "m", ":", "c">>), v) :
        a \in ActionTexts, v \in {U32(1), ObjectWith1(<<"k">>, U32(2))}}

\* val is the EditOperation as built or as written in a document; other
\* counts the entries Edit has applied.
InitAction ==
    /\ pc = "start"
    /\ op = "none"
    /\ tree \in EditTrees
    /\ other = 0
    /\ iid = None
    /\ val \in {EditOperation(es) : es \in SeqsUpTo(AnyEntries, MaxEntries)}
    /\ result = None
    /\ trees = <<>>

\* Encoding val
EncodeOperation ==
    /\ pc = "start"
    /\ pc' = "encoded"
    /\ op' = "Encode"
    /\ result' = EditOperationEncode(val.actions, 1, <<>>)
    /\ UNCHANGED <<tree, other, iid, val, trees>>

\* Decoding the document whose entries val stands for
DecodeOperation ==
    /\ pc = "start"
    /\ pc' = "decoded"
    /\ op' = "Decode"
    /\ result' = EditOperationDecode(val.actions, 1, <<>>)
    /\ UNCHANGED <<tree, other, iid, val, trees>>

\* tree.Edit(val), up to the function that eval returns: trees holds the
\* functions still to apply, result the tree they are applied to.
EvalOperation ==
    LET built(e) ==
            IF e.panic
            THEN pc' = "failed" /\ result' = Panic /\ trees' = <<>>
            ELSE /\ pc' = IF e.actions = <<>> THEN "edited" ELSE "applying"
                 /\ result' = tree
                 /\ trees' = e.actions
    IN  /\ pc = "start"
        /\ op' = "Edit"
        /\ built(EditOperationEval(val))
        /\ UNCHANGED <<tree, other, iid, val>>

\* One turn of the loop of the function eval returned
ApplyEntry ==
    LET applied(t) ==
            /\ result' = t
            /\ other' = other + 1
            /\ trees' = Tail(trees)
            /\ pc' = IF IsPanic(t) THEN "failed"
                     ELSE IF Len(trees) = 1 THEN "edited" ELSE "applying"
    IN  /\ pc = "applying"
        /\ applied(entryEval(Head(trees), result))
        /\ UNCHANGED <<op, tree, iid, val>>

NextAction == EncodeOperation \/ DecodeOperation \/ EvalOperation \/ ApplyEntry

SpecAction == InitAction /\ [][NextAction]_vars

HasUnknownAction ==
    \E i \in 1..Len(val.actions) : val.actions[i].action \notin EditActions

\* C12: an EditOperation with an entry whose action is none of assoc,
\* delete, merge is rejected as a whole: decoding it and encoding it return
\* an error, and Tree.Edit fails with no entry applied, the valid entries
\* before the unknown one included.
C12_UnknownActionRejected ==
    HasUnknownAction =>
        /\ pc \in {"encoded", "decoded"} => result.err
        /\ pc \notin {"applying", "edited"}
        /\ op = "Edit" => (pc = "failed" /\ IsPanic(result) /\ other = 0)

\* Edit has failed on an operation whose first entry is valid and whose
\* second is not.
C12_Witness ==
    /\ pc = "failed"
    /\ Len(val.actions) = 2
    /\ val.actions[1].action \in EditActions
    /\ val.actions[2].action \notin EditActions
    /\ other = 0

(***************************************************************************)
(* Tree.Range                                                              *)
(***************************************************************************)

\* The state of a traversal: the visits made, whether the walk goes on, and
\* whether it panicked.
RangeStart == [log |-> <<>>, cont |-> TRUE, panic |-> FALSE]

\* The function genTreeRangeFunc returns for a visitor that records its
\* arguments and returns false on its stopAt-th call (never when stopAt is 0)
rangeFn(stopAt, p, v, st) ==
    [log |-> Append(st.log, [path |-> p, value |-> v]),
     cont |-> Len(st.log) + 1 # stopAt,
     panic |-> FALSE]

\* Perform returning nil, asserted to bool
RangePanic(st) == [log |-> st.log, cont |-> FALSE, panic |-> TRUE]

RECURSIVE recur(_, _, _, _)
RECURSIVE RangeObject(_, _, _, _, _, _)
RECURSIVE RangeArray(_, _, _, _, _)

\* o.Range within recur: the members in the map's order, until one returns
\* false
RangeObject(stopAt, p, o, ks, i, st) ==
    IF i > Len(ks) \/ ~st.cont THEN st
    ELSE RangeObject(stopAt, p, o, ks, i + 1,
                     recur(stopAt, push(p, ks[i]), o.store[ks[i]], st))

\* a.Range within recur: the elements in order, until one returns false
RangeArray(stopAt, p, a, i, st) ==
    IF i >= Len(a.vec) \/ ~st.cont THEN st
    ELSE RangeArray(stopAt, p, a, i + 1,
                    recur(stopAt, addPosPredicate(p, i), a.vec[i + 1], st))

\* An Array handler that reports true once its loop is over, against which
\* C14 is checked to fail
recurArrayResumes(stopAt, p, a, st) ==
    LET resumed(s) == IF s.panic THEN s ELSE [s EXCEPT !.cont = TRUE]
        visited(s) ==
            IF ~s.cont THEN s ELSE resumed(RangeArray(stopAt, p, a, 0, s))
    IN  visited(rangeFn(stopAt, p, a, st))

\* The Array handler of recur
recurArray(stopAt, p, a, st) ==
    LET visited(s) == IF ~s.cont THEN s ELSE RangeArray(stopAt, p, a, 0, s)
    IN  visited(rangeFn(stopAt, p, a, st))

\* The Object handler of recur
recurObject(stopAt, p, o, st) ==
    LET visited(s) ==
            IF ~s.cont THEN s
            ELSE RangeObject(stopAt, p, o, Keys(o.store), 1, s)
    IN  visited(rangeFn(stopAt, p, o, st))

\* recur of (*Tree).Range: Perform with an *Object, an *Array and a *Value
\* handler, its result asserted to bool.  No handler matches a Value whose
\* data is nil, Perform returns nil and the assertion panics.
recur(stopAt, p, elem, st) ==
    IF "kind" \in DOMAIN p THEN RangePanic(st)
    ELSE IF elem.kind = "object" THEN recurObject(stopAt, p, elem, st)
    ELSE IF elem.kind = "array" THEN recurArray(stopAt, p, elem, st)
    ELSE IF elem.kind \in {"null", "nil", "rawnil"} THEN RangePanic(st)
    ELSE rangeFn(stopAt, p, elem, st)

\* (*Tree).Range: the members of the root in the map's order
TreeRange(t, stopAt) ==
    RangeObject(stopAt, InstanceID(<<>>), t, Keys(t.store), 1, RangeStart)

\* (*Tree).Length: the calls of a visitor that never stops; Panic when
\* Range panics.
TreeLength(t) ==
    LET counted(st) == IF st.panic THEN Panic ELSE U32(Len(st.log))
    IN  counted(TreeRange(t, 0))

\* The number of the visit on which the visitor returns false
MaxStop == 5

\* The trees walked: a leaf of every kind, a leaf-list, a list or a
\* container under m:c, alone or beside a leaf of module n.
RangeLeaves == Leaves \cup {Bool(TRUE), Empty, Null}
RangeMembers ==
    RangeLeaves \cup LeafLists \cup Lists \cup Containers
    \cup {ObjectWith1(<<"d">>, v) : v \in {Null, Empty, ObjectNew, ArrayNew}}
    \cup {ObjectWith2(<<"k">>, U32(1), <<"d">>, ArrayWith(<<U32(1), U32(2)>>)),
          ObjectWith2(<<"k">>, ArrayWith(<<U32(1)>>),
                      <<"d">>, ArrayWith(<<U32(1), U32(2)>>)),
          ArrayWith(<<ObjectWith1(<<"k">>, U32(1)), ObjectNew>>)}
RangeTrees ==
    {ObjectNew}
    \cup {ObjectWith1(KC, v) : v \in RangeMembers}
    \cup {ObjectWith2(KC, v, KX, U32(1)) : v \in RangeMembers}

InitRange ==
    /\ pc = "start"
    /\ op = "none"
    /\ tree \in RangeTrees
    /\ other = None
    /\ iid = None
    /\ val \in 0..MaxStop
    /\ result = None
    /\ trees = <<>>

\* tree.Range(fn), fn returning false on its val-th call
Range ==
    /\ pc = "start"
    /\ pc' = "ranged"
    /\ op' = "Range"
    /\ result' = TreeRange(tree, val)
    /\ UNCHANGED <<tree, other, iid, val, trees>>

\* tree.Length()
Length ==
    /\ pc = "start"
    /\ val = 0
    /\ pc' = "counted"
    /\ op' = "Length"
    /\ result' = TreeLength(tree)
    /\ UNCHANGED <<tree, other, iid, val, trees>>

NextRange == Range \/ Length

SpecRange == InitRange /\ [][NextRange]_vars

\* The nodes below a value: every member of an Object under the path
\* extended by its key, every element of an Array under the path extended
\* by its position, and the nodes below each of them.
RECURSIVE NodesBelow(_, _)
NodesBelow(v, p) ==
    IF v.kind = "object"
    THEN UNION {{[path |-> push(p, k), value |-> v.store[k]]}
                \cup NodesBelow(v.store[k], push(p, k)) : k \in DOMAIN v.store}
    ELSE IF v.kind = "array"
    THEN UNION {{[path |-> addPosPredicate(p, i - 1), value |-> v.vec[i]]}
                \cup NodesBelow(v.vec[i], addPosPredicate(p, i - 1)) :
                    i \in 1..Len(v.vec)}
    ELSE {}

\* The paths of the members of a visited node
MemberPaths(n) ==
    IF n.value.kind = "object"
    THEN {push(n.path, k) : k \in DOMAIN n.value.store}
    ELSE IF n.value.kind = "array"
    THEN {addPosPredicate(n.path, i - 1) : i \in 1..Len(n.value.vec)}
    ELSE {}

\* C13: Tree.Range visits every node below the root exactly once, each
\* Object and Array before its members, array elements under the parent's
\* path extended with a positional predicate, every leaf of every kind with
\* its path and value; Tree.Length is the number of visits.
C13_RangeVisitsEveryNode ==
    /\ (pc = "ranged" /\ val = 0) =>
           /\ ~result.panic
           /\ {result.log[i] : i \in 1..Len(result.log)}
                  = NodesBelow(tree, InstanceID(<<>>))
           /\ Len(result.log) = Cardinality(NodesBelow(tree, InstanceID(<<>>)))
           /\ \A i, j \in 1..Len(result.log) :
                  result.log[j].path \in MemberPaths(result.log[i]) => i < j
    /\ pc = "counted" =>
           result = U32(Cardinality(NodesBelow(tree, InstanceID(<<>>))))

\* C14: when a Tree.Range visitor returns false the traversal stops
\* globally: no visitor call is made afterwards at any depth, whether the
\* false was returned on a leaf, an Object or an Array; the visits made are
\* those of the full traversal up to the one that returned false.
C14_RangeStopsOnFalse ==
    (pc = "ranged" /\ val > 0) =>
        /\ Len(result.log) <= val
        /\ (Len(result.log) = val) => ~result.cont
        /\ \A i \in 1..Len(result.log) :
               result.log[i] \in NodesBelow(tree, InstanceID(<<>>))

\* A visitor has returned false on a node whose parent's parent, visited
\* too, has a member that was left unvisited.
C14_Witness ==
    /\ pc = "ranged"
    /\ val > 2
    /\ Len(result.log) = val
    /\ ~result.panic
    /\ \E i, j \in 1..(val - 1) :
           /\ result.log[j].path \in MemberPaths(result.log[i])
           /\ result.log[val].path \in MemberPaths(result.log[j])
           /\ \E q \in MemberPaths(result.log[i]) :
                  \A n \in 1..val : result.log[n].path # q

(***************************************************************************)
(* Value.Perform                                                           *)
(***************************************************************************)

\* Widths of the 32-bit and the 64-bit integers, scaled down so that every
\* value of either width is within the model checker's integers; the code
\* depends on the widths only through the limits below.
Bits32 == 4
Bits64 == 6

MaxInt32 == 2 ^ (Bits32 - 1) - 1
MinInt32 == 0 - 2 ^ (Bits32 - 1)
MaxUint32 == 2 ^ Bits32 - 1
MaxInt64 == 2 ^ (Bits64 - 1) - 1
MinInt64 == 0 - 2 ^ (Bits64 - 1)
MaxUint64 == 2 ^ Bits64 - 1

\* reflect.TypeOf((*interface{})(nil)).Elem(), reflect.TypeOf((*Value)(nil))
\* and reflect.TypeOf(String(""))
interfaceType == "interface{}"
valType == "*Value"
stringType == "String"

\* reflect.TypeOf(val.data); "nil" is the nil reflect.Type of nil data
TypeOf(v) ==
    CASE v.kind = "null" -> "nil"
      [] v.kind = "object" -> "*Object"
      [] v.kind = "array" -> "*Array"
      [] OTHER -> v.kind

\* A func value handed to Perform: the types of its parameters
Handler(ins) == [ins |-> ins]

\* dyn.Apply(action, arg): the call of handler number fn with arg
Apply(fn, arg) == [kind |-> "applied", fn |-> fn, arg |-> arg]

\* val.data as an argument
DataArg(v) == [type |-> TypeOf(v), v |-> v]

\* vty.AssignableTo(inputType) for the types handlers take here
AssignableTo(vty, inputType) == vty = inputType \/ inputType = interfaceType

\* canConvertNumeric without the test that the value fits
canConvertNumericAnyValue(from, to, v) ==
    \/ from = to
    \/ {from, to} = {"int32", "uint32"}
    \/ {from, to} = {"int64", "uint64"}

canConvertNumeric(from, to, v) ==
    IF from = to THEN TRUE
    ELSE CASE from = "int32" -> to = "uint32" /\ v.n >= 0
           [] from = "uint32" -> to = "int32" /\ v.n <= MaxInt32
           [] from = "int64" -> to = "uint64" /\ v.n >= 0
           [] from = "uint64" -> to = "int64" /\ v.n <= MaxInt64
           [] OTHER -> FALSE

\* convertNumeric: reflect's Convert between integer types keeps the low
\* bits of the two's complement form
convertNumeric(v, to) ==
    LET bits == IF to \in {"int32", "uint32"} THEN Bits32 ELSE Bits64
        low == v.n % (2 ^ bits)
    IN  [kind |-> to,
         n |-> IF to \in {"int32", "int64"} /\ low >= 2 ^ (bits - 1)
               THEN low - 2 ^ bits ELSE low]

\* The loop of Perform from handler i on, no action chosen yet, and the
\* call of the action it chooses; nil when it chooses none.
RECURSIVE PerformFrom(_, _, _)
PerformFrom(v, fns, i) ==
    IF i > Len(fns) THEN Nil
    ELSE IF Len(fns[i].ins) # 1 THEN PerformFrom(v, fns, i + 1)
    ELSE LET inputType == fns[i].ins[1]
             vty == TypeOf(v)
         IN  CASE vty = "nil" ->
                    IF inputType = interfaceType THEN Apply(i, DataArg(v))
                    ELSE PerformFrom(v, fns, i + 1)
               [] vty # "nil" /\ inputType = valType ->
                    Apply(i, [type |-> valType, v |-> v])
               [] vty # "nil" /\ inputType = stringType ->
                    IF HasRFC7951String(v)
                    THEN Apply(i, [type |-> stringType, s |-> RFC7951String(v)])
                    ELSE Panic
               [] vty # "nil" /\ inputType \notin {valType, stringType}
                  /\ AssignableTo(vty, inputType) ->
                    Apply(i, DataArg(v))
               [] vty # "nil" /\ inputType \notin {valType, stringType}
                  /\ ~AssignableTo(vty, inputType)
                  /\ canConvertNumeric(vty, inputType, v) ->
                    Apply(i, DataArg(convertNumeric(v, inputType)))
               [] OTHER -> PerformFrom(v, fns, i + 1)

\* (*Value).Perform
Perform(v, fns) == IF v = Nil THEN Nil ELSE PerformFrom(v, fns, 1)

MaxHandlers == 2

\* The numbers at the edges of each stored integer type
EdgeNumbers ==
    {U32(n) : n \in {0, MaxInt32, MaxInt32 + 1, MaxUint32}}
    \cup {I32(n) : n \in {MinInt32, 0 - 1, 0, MaxInt32}}
    \cup {U64(n) : n \in {0, MaxInt64, MaxInt64 + 1, MaxUint64}}
    \cup {I64(n) : n \in {MinInt64, 0 - 1, 0, MaxInt64}}

PerformValues ==
    {Nil, Null, Empty, Str(<<"a">>), Bool(TRUE), ObjectNew} \cup EdgeNumbers

NumericTypes == {"int32", "uint32", "int64", "uint64"}

\* Handlers of one parameter of each type, one of two parameters and one of
\* none
Handlers ==
    {Handler(<<ty>>) : ty \in {interfaceType, valType, stringType, "string",
                               "*Object"} \cup NumericTypes}
    \cup {Handler(<<stringType, interfaceType>>), Handler(<<>>)}

\* other is the Value Perform is called on and trees the handlers given
InitPerform ==
    /\ pc = "start"
    /\ op = "none"
    /\ tree = None
    /\ other \in PerformValues
    /\ iid = None
    /\ val = None
    /\ result = None
    /\ trees \in SeqsUpTo(Handlers, MaxHandlers)

\* other.Perform(trees...)
PerformCall ==
    /\ pc = "start"
    /\ pc' = "performed"
    /\ op' = "Perform"
    /\ result' = Perform(other, trees)
    /\ UNCHANGED <<tree, other, iid, val, trees>>

NextPerform == PerformCall

SpecPerform == InitPerform /\ [][NextPerform]_vars

\* What Perform does with handler i alone
PerformSingle(v, fns, i) == Perform(v, <<fns[i]>>)

\* The handlers that, alone, are applied
Matching(v, fns) == {i \in 1..Len(fns) : PerformSingle(v, fns, i) # Nil}

\* The claim's rule for a handler taking the integer type ty
NumberFits(v, ty) ==
    \/ v.kind = ty
    \/ v.kind = "uint32" /\ ty = "int32" /\ v.n <= 2 ^ (Bits32 - 1) - 1
    \/ v.kind = "int32" /\ ty = "uint32" /\ v.n >= 0
    \/ v.kind = "uint64" /\ ty = "int64" /\ v.n <= 2 ^ (Bits64 - 1) - 1
    \/ v.kind = "int64" /\ ty = "uint64" /\ v.n >= 0

FirstOf(s) == CHOOSE i \in s : \A j \in s : i <= j

\* C15: Perform applies the first handler, in the order given, that matches
\* and no other; a handler taking an integer type matches a stored number of
\* that type, or of the other signedness and the same width when the value
\* fits, and then receives that number in its own type; a handler that does
\* not take exactly one argument is never applied; with no matching handler,
\* or a nil Value, the result is nil.
C15_PerformFirstMatch ==
    pc = "performed" =>
        /\ other = Nil => result = Nil
        /\ Matching(other, trees) = {} => result = Nil
        /\ Matching(other, trees) # {} =>
               LET outcome(first, alone) ==
                       IF IsPanic(alone) THEN IsPanic(result)
                       ELSE result = Apply(first, alone.arg)
                   apply(first) ==
                       outcome(first, PerformSingle(other, trees, first))
               IN  apply(FirstOf(Matching(other, trees)))
        /\ \A i \in 1..Len(trees) :
               Len(trees[i].ins) # 1 => i \notin Matching(other, trees)
        /\ \A i \in 1..Len(trees) :
               (/\ other.kind \in NumericTypes
                /\ Len(trees[i].ins) = 1
                /\ trees[i].ins[1] \in NumericTypes) =>
                   /\ i \in Matching(other, trees)
                          <=> NumberFits(other, trees[i].ins[1])
                   /\ i \in Matching(other, trees) =>
                          PerformSingle(other, trees, i).arg =
                              [type |-> trees[i].ins[1],
                               v |-> [kind |-> trees[i].ins[1],
                                      n |-> other.n]]

\* A uint32 that fits an int32 was given an int32 handler and then a uint32
\* handler, both of which match, and the int32 handler was applied.
C15_Witness ==
    /\ pc = "performed"
    /\ other = U32(MaxInt32)
    /\ trees = <<Handler(<<"int32">>), Handler(<<"uint32">>)>>
    /\ result = Apply(1, [type |-> "int32", v |-> I32(MaxInt32)])

\* C16: a handler taking *Value, or String, matches every Value, Null
\* included: given first, it is the one applied, with the Value itself, or
\* with the Value's RFC7951String form.
C16_ValueAndStringMatchAll ==
    (pc = "performed" /\ other # Nil /\ Len(trees) >= 1) =>
        /\ trees[1].ins = <<valType>> =>
               result = Apply(1, [type |-> valType, v |-> other])
        /\ trees[1].ins = <<stringType>> =>
               /\ result.kind = "applied"
               /\ result.fn = 1
               /\ result.arg.type = stringType
               /\ HasRFC7951String(other) =>
                      result.arg.s = RFC7951String(other)

(***************************************************************************)
(* ValueNew of host integers                                               *)
(***************************************************************************)

\* Widths of the 8-bit and 16-bit integers, scaled like Bits32 and Bits64
Bits8 == 2
Bits16 == 3

\* Width of each host integer type; int and uint are as wide as the
\* platform's word, 64 bits on the 64-bit builds
HostBits(ty) ==
    CASE ty \in {"int8", "uint8"} -> Bits8
      [] ty \in {"int16", "uint16"} -> Bits16
      [] ty \in {"int32", "uint32"} -> Bits32
      [] ty \in {"int", "int64", "uint", "uint64"} -> Bits64

SignedTypes == {"int", "int8", "int16", "int32", "int64"}
UnsignedTypes == {"uint", "uint8", "uint16", "uint32", "uint64"}

\* A host integer of type ty
Host(ty, n) == [kind |-> ty, n |-> n]

convertToInt32(v) == convertNumeric(v, "int32")

convertToUint32(v) == convertNumeric(v, "uint32")

convertToUint64(v) == convertNumeric(v, "uint64")

inferInt32Type(v) ==
    IF canConvertNumeric("int32", "uint32", v) THEN convertToUint32(v) ELSE v

inferInt64Type(v) ==
    IF canConvertNumeric("int64", "uint64", v) THEN convertToUint64(v) ELSE v

\* valueNew of nil, of a *Value and of the host integer types
valueNew(d) ==
    CASE d.kind = "rawnil" -> Null
      [] d.kind \in {"uint", "uint8", "uint16", "uint32"} -> convertToUint32(d)
      [] d.kind = "uint64" -> d
      [] d.kind \in {"int", "int8", "int16", "int32"} ->
             inferInt32Type(convertToInt32(d))
      [] d.kind = "int64" -> inferInt64Type(d)
      [] OTHER -> d

HostNumbers ==
    {Host(ty, n) : ty \in SignedTypes, n \in MinInt64..MaxInt64}
    \cup {Host(ty, n) : ty \in UnsignedTypes, n \in 0..MaxUint64}

\* val is the host value handed to ValueNew
InitValueNew ==
    /\ pc = "start"
    /\ op = "none"
    /\ tree = None
    /\ other = None
    /\ iid = None
    /\ val \in {h \in HostNumbers :
                   /\ h.n < 2 ^ HostBits(h.kind)
                   /\ h.kind \in SignedTypes =>
                          /\ h.n >= 0 - 2 ^ (HostBits(h.kind) - 1)
                          /\ h.n < 2 ^ (HostBits(h.kind) - 1)}
    /\ result = None
    /\ trees = <<>>

\* ValueNew(val)
ValueNewCall ==
    /\ pc = "start"
    /\ pc' = "made"
    /\ op' = "ValueNew"
    /\ result' = valueNew(val)
    /\ UNCHANGED <<tree, other, iid, val, trees>>

NextValueNew == ValueNewCall

SpecValueNew == InitValueNew /\ [][NextValueNew]_vars

\* C17: ValueNew of a host integer stores the number passed in, as int32
\* when it is negative and uint32 otherwise for int, int8, int16, int32,
\* uint, uint8, uint16 and uint32, as int64 when negative and uint64
\* otherwise for int64, and as uint64 for uint64.
C17_ValueNewKeepsNumber ==
    pc = "made" =>
        /\ result.n = val.n
        /\ result.kind =
               IF val.kind \in {"int64", "uint64"}
               THEN (IF val.n < 0 THEN "int64" ELSE "uint64")
               ELSE (IF val.n < 0 THEN "int32" ELSE "uint32")

(***************************************************************************)
(* InstanceID.String                                                       *)
(***************************************************************************)

RECURSIVE nodeIDString(_)

\* (*posPredicate).String
posPredicateString(p) == FormatUint(p.pos)

\* (*exprPredicate).String
exprPredicateString(p) ==
    nodeIDString(p.nodeID) \o <<"=", "'">> \o p.value \o <<"'">>

\* (*predicate).String
predicateString(p) ==
    <<"[">> \o (IF p.kind = "pos" THEN posPredicateString(p)
                ELSE exprPredicateString(p)) \o <<"]">>

\* (*predicates).String
predicatesString(p) ==
    LET out[i \in 0..Len(p.preds)] ==
            IF i = 0 THEN <<>> ELSE out[i - 1] \o predicateString(p.preds[i])
    IN  IF p.isNil THEN <<>> ELSE out[Len(p.preds)]

\* (*nodeID).String
nodeIDString(id) ==
    IF id.prefix # EmptyStr /\ ~id.prefixInferred
    THEN id.prefix \o <<":">> \o id.identifier \o predicatesString(id.predicates)
    ELSE id.identifier \o predicatesString(id.predicates)

\* strings.Join(ss, "/")
Join(ss) ==
    LET out[i \in 0..Len(ss)] ==
            IF i = 0 THEN <<>>
            ELSE IF i = 1 THEN ss[1]
            ELSE out[i - 1] \o <<"/">> \o ss[i]
    IN  out[Len(ss)]

\* (*InstanceID).String
InstanceIDString(i) ==
    <<"/">> \o Join([n \in 1..Len(i.ids) |-> nodeIDString(i.ids[n])])

MaxDepth == 3

\* Node-identifiers: a prefix or none, an identifier, a predicate or none
SomePrefixes ==
    {<<>>, <<"m", ":">>, <<"n", ":">>}

SomeIdentifiers ==
    {<<"a">>, <<"b", "-", "1">>}

SomePredicates ==
    {<<>>, <<"[", "0", "]">>, <<"[", "k", "=", "'", "x", "'", "]">>,
     <<"[", " ", "k", " ", "=", " ", "\"", "x", "\"", " ", "]">>,
     <<"[", "n", ":", "k", "=", "'", "x", "'", "]">>,
     <<"[", ".", "=", "'", "x", ":", "y", "'", "]">>,
     <<"[", "k", "=", "'", "x", "'", "]", "[", "1", "]">>,
     <<"[", "k", "=", "\"", "/", "\"", "]">>}

SomeNodeIDs ==
    {p \o i \o q : p \in SomePrefixes, i \in SomeIdentifiers,
                   q \in SomePredicates}

\* Instance-identifier strings of one and of two node-identifiers
WellFormed ==
    {<<"/">> \o a : a \in SomeNodeIDs}
    \cup {<<"/">> \o a \o <<"/">> \o b : a \in SomeNodeIDs, b \in SomeNodeIDs}

\* Parts that the claim has rejected as a prefix or as an identifier: one
\* that starts with "xml" in some letter case, the empty one, one with a
\* character outside the identifier grammar
XmlParts ==
    {<<"x", "m", "l">>, <<"X", "m", "L">>, <<"x", "M", "l", "b">>,
     <<"X", "M", "L", "-", "2">>}

EmptyParts == {EmptyStr}

UngrammaticalParts ==
    {<<"a", "?">>, <<"?", "a">>, <<"1", "a">>, <<"a", " ", "b">>,
     <<"-", "a">>}

BadParts == XmlParts \cup EmptyParts \cup UngrammaticalParts

\* A bad part as the prefix, or as the identifier, of the first or of the
\* second node-identifier
BadPartInputs ==
    {<<"/">> \o p \o <<":", "a">> : p \in BadParts}
    \cup {<<"/", "m", ":">> \o p : p \in BadParts}
    \cup {<<"/", "m", ":", "a", "/">> \o p \o <<":", "b">> : p \in BadParts}
    \cup {<<"/", "m", ":", "a", "/", "n", ":">> \o p : p \in BadParts}
    \cup {<<"/", "m", ":">> \o p \o <<"[", "0", "]">> : p \in BadParts}

EmptyInputs ==
    {<<>>, <<"/">>}

NoLeadingSlash ==
    {<<"m", ":", "a">>, <<"a">>, <<"m", ":", "a", "/", "b">>,
     <<"[", "0", "]">>}

NoFirstPrefix ==
    {<<"/", "a">>, <<"/", "a", "/", "m", ":", "b">>,
     <<"/", "a", "[", "0", "]">>,
     <<"/", "a", "[", "m", ":", "k", "=", "'", "x", "'", "]">>}

NestedPredicates ==
    {<<"/", "m", ":", "a", "[", "k", "[", "0", "]", "=", "'", "x", "'", "]">>,
     <<"/", "m", ":", "a", "[", "[", "0", "]", "]">>,
     <<"/", "m", ":", "a", "/", "b", "[", "k", "[", "j", "=", "'", "y", "'", "]", "=", "'", "x", "'", "]">>}

Unterminated ==
    {<<"/", "m", ":", "a", "[", "k", "=", "'", "x", "]">>,
     <<"/", "m", ":", "a", "[", "k", "=", "\"", "x", "]">>,
     <<"/", "m", ":", "a", "[", "k", "=", "'", "x", "'">>,
     <<"/", "m", ":", "a", "[", "0">>,
     <<"/", "m", ":", "a", "[", "k", "=", "'", "x", "'", "]", "/", "b", "[", "1">>}

UnquotedValues ==
    {<<"/", "m", ":", "a", "[", "k", "=", "x", "]">>,
     <<"/", "m", ":", "a", "[", "k", "=", " ", "x", " ", "]">>,
     <<"/", "m", ":", "a", "[", "k", "=", "x", "'", "]">>,
     <<"/", "m", ":", "a", "/", "b", "[", "k", "=", "1", "]">>}

NoEquals ==
    {<<"/", "m", ":", "a", "[", "k", "]">>,
     <<"/", "m", ":", "a", "[", "k", " ", "'", "x", "'", "]">>,
     <<"/", "m", ":", "a", "/", "b", "[", " ", "k", " ", "]">>}

Malformed ==
    EmptyInputs \cup NoLeadingSlash \cup NoFirstPrefix \cup BadPartInputs
    \cup NestedPredicates \cup Unterminated \cup UnquotedValues \cup NoEquals

\* Keys that Tree.Range and Tree.Diff push
PushKeys ==
    {<<"m", ":", "c">>, <<"k">>, <<"n", ":", "x">>}

\* op is "parse" when the client makes the instance-identifier from the
\* string val and "build" when it extends the empty one with push and
\* addPosPredicate, as Tree.Range and Tree.Diff do.
InitIID ==
    /\ pc = "start"
    /\ \/ op = "parse" /\ val \in WellFormed \cup Malformed
       \/ op = "build" /\ val = EmptyStr
    /\ tree = None
    /\ other = None
    /\ iid = InstanceID(<<>>)
    /\ result = None
    /\ trees = <<>>

\* InstanceIDNew(val)
New ==
    /\ pc = "start"
    /\ op = "parse"
    /\ LET made(i) ==
               /\ iid' = i
               /\ pc' = IF "kind" \in DOMAIN i THEN "failed" ELSE "made"
       IN  made(InstanceIDNew(val))
    /\ UNCHANGED <<op, tree, other, val, result, trees>>

\* iid.push(key)
Push(key) ==
    /\ pc \in {"start", "pushed"}
    /\ op = "build"
    /\ Len(iid.ids) < MaxDepth
    /\ LET pushed(i) ==
               /\ iid' = i
               /\ pc' = IF "kind" \in DOMAIN i THEN "failed" ELSE "pushed"
       IN  pushed(push(iid, key))
    /\ UNCHANGED <<op, tree, other, val, result, trees>>

\* iid.addPosPredicate(pos)
AddPosPredicate(pos) ==
    /\ pc = "pushed"
    /\ Len(iid.ids[Len(iid.ids)].predicates.preds) < 2
    /\ iid' = addPosPredicate(iid, pos)
    /\ UNCHANGED <<pc, op, tree, other, val, result, trees>>

\* iid.String()
String ==
    /\ pc \in {"made", "pushed"}
    /\ pc' = "printed"
    /\ result' = InstanceIDString(iid)
    /\ UNCHANGED <<op, tree, other, iid, val, trees>>

\* InstanceIDNew(result)
NewFromString ==
    /\ pc = "printed"
    /\ pc' = "reparsed"
    /\ other' = InstanceIDNew(result)
    /\ UNCHANGED <<op, tree, iid, val, result, trees>>

NextIID ==
    \/ New
    \/ \E key \in PushKeys : Push(key)
    \/ \E pos \in 0..1 : AddPosPredicate(pos)
    \/ String
    \/ NewFromString

SpecIID == InitIID /\ [][NextIID]_vars

\* C18: the canonical string of an instance-identifier that InstanceIDNew
\* accepted, or that push and addPosPredicate built, is accepted by
\* InstanceIDNew and is the canonical string of what it parses to.
C18_StringRoundTrip ==
    pc = "reparsed" =>
        /\ "kind" \notin DOMAIN other
        /\ InstanceIDString(other) = result

\* C20: InstanceIDNew fails on every malformed input
C20_MalformedRejected ==
    (op = "parse" /\ pc # "start" /\ val \in Malformed) => pc = "failed"

(***************************************************************************)
(* Spellings of one instance-identifier                                    *)
(***************************************************************************)

\* The ways to write one instance-identifier: the second node-identifier
\* with its prefix, which is the first one's, or without; spaces and tabs
\* after '[', before '=', after '=' and before ']'; the value in single or
\* in double quotes.  The predicate is on the first node-identifier
\* (onFirst) or on the second.
Spellings ==
    [onFirst : BOOLEAN,
     prefix : {EmptyStr, <<"m", ":">>},
     w1 : {EmptyStr, <<" ">>},
     w2 : {EmptyStr, <<"\t">>},
     w3 : {EmptyStr, <<" ">>},
     w4 : {EmptyStr, <<" ", "\t">>},
     quote : {"'", "\""},
     key : {<<"k">>, <<".">>},
     value : {<<"a">>, <<"b", ":", "c">>}]

\* The text of a spelling
Text(c) ==
    LET predicate ==
            <<"[">> \o c.w1 \o c.key \o c.w2 \o <<"=">> \o c.w3
            \o <<c.quote>> \o c.value \o <<c.quote>> \o c.w4 \o <<"]">>
    IN  IF c.onFirst
        THEN <<"/", "m", ":", "l">> \o predicate \o <<"/">> \o c.prefix \o <<"v">>
        ELSE <<"/", "m", ":", "c", "/">> \o c.prefix \o <<"l">> \o predicate

\* The spelling with single quotes, no whitespace and no redundant prefix
Plain(c) ==
    [c EXCEPT !.prefix = EmptyStr, !.w1 = EmptyStr, !.w2 = EmptyStr,
              !.w3 = EmptyStr, !.w4 = EmptyStr, !.quote = "'"]

\* A list keyed by k, at the root and in a container
SpelledList ==
    ArrayWith(<<ObjectWith2(<<"k">>, Str(<<"a">>), <<"v">>, U32(1)),
                ObjectWith2(<<"k">>, Str(<<"b", ":", "c">>), <<"v">>, U32(2))>>)

SpelledTrees ==
    {ObjectNew,
     ObjectWith1(KL, SpelledList),
     ObjectWith1(KC, ObjectWith1(<<"l">>, SpelledList))}

\* val is one spelling of an instance-identifier and other its plain one
InitSpelling ==
    /\ pc = "start"
    /\ op = "none"
    /\ tree \in SpelledTrees
    /\ \E c \in Spellings : val = Text(c) /\ other = Text(Plain(c))
    /\ iid = None
    /\ result = None
    /\ trees = <<>>

\* InstanceIDNew(val)
NewSpelled ==
    /\ pc = "start"
    /\ pc' = "spelled"
    /\ op' = "InstanceIDNew"
    /\ iid' = InstanceIDNew(val)
    /\ UNCHANGED <<tree, other, val, result, trees>>

\* InstanceIDNew(other)
NewPlain ==
    /\ pc = "spelled"
    /\ pc' = "parsed"
    /\ result' = [plain |-> InstanceIDNew(other)]
    /\ UNCHANGED <<op, tree, other, iid, val, trees>>

\* tree.Find of both
FindBoth ==
    /\ pc = "parsed"
    /\ "kind" \notin DOMAIN iid
    /\ "kind" \notin DOMAIN result.plain
    /\ pc' = "found"
    /\ op' = "Find"
    /\ trees' = <<TreeFind(tree, iid), TreeFind(tree, result.plain)>>
    /\ UNCHANGED <<tree, other, iid, val, result>>

NextSpelling == NewSpelled \/ NewPlain \/ FindBoth

SpecSpelling == InitSpelling /\ [][NextSpelling]_vars

\* C19: a spelling of an instance-identifier is accepted exactly when its
\* plain spelling is, both then parse to instance-identifiers whose
\* String() is the plain spelling, and both resolve to the same node of the
\* tree.
C19_SpellingsAlike ==
    /\ pc \in {"parsed", "found"} =>
           /\ ("kind" \in DOMAIN iid) <=> ("kind" \in DOMAIN result.plain)
           /\ "kind" \notin DOMAIN iid =>
                  /\ InstanceIDString(iid) = other
                  /\ InstanceIDString(result.plain) = other
    /\ pc = "found" => trees[1] = trees[2]

(***************************************************************************)
(* Find through expression predicates                                      *)
(***************************************************************************)

\* Members of list entries: strings, a number, and an Array, which has no
\* RFC7951String form
FindMembers ==
    {Str(<<"a">>), Str(<<"b">>), U32(1), ArrayWith(<<U32(1)>>)}

\* List elements: Objects with a member k, or k and d, and a leaf
FindEntries ==
    {ObjectWith1(<<"k">>, x) : x \in FindMembers}
    \cup {ObjectWith2(<<"k">>, x, <<"d">>, y) :
              x \in FindMembers, y \in FindMembers}
    \cup {ObjectWith1(<<"d">>, Str(<<"b">>)), U32(1)}

FindTrees ==
    {ObjectNew}
    \cup {ObjectWith1(KL, ArrayWith(s)) : s \in SeqsUpTo(FindEntries, MaxArrLen)}

\* Paths of one node-identifier with one or two expression predicates
FindPaths ==
    {InstanceIDNew(x) : x \in
        {<<"/", "m", ":", "l", "[", "k", "=", "'", "a", "'", "]">>,
         <<"/", "m", ":", "l", "[", "k", "=", "'", "1", "'", "]">>,
         <<"/", "m", ":", "l", "[", "k", "=", "'", "a", "'", "]", "[", "d", "=", "'", "b", "'", "]">>,
         <<"/", "m", ":", "l", "[", "d", "=", "'", "b", "'", "]", "[", "k", "=", "'", "a", "'", "]">>,
         <<"/", "m", ":", "l", "[", "d", "=", "'", "b", "'", "]">>,
         <<"/", "m", ":", "x", "[", "k", "=", "'", "a", "'", "]">>,
         <<"/", "m", ":", "l", "[", "k", "=", "'", "a", "'", "]", "[", "m", ":", "d", "=", "'", "a", "'", "]">>}}

InitFind ==
    /\ pc = "start"
    /\ op = "none"
    /\ tree \in FindTrees
    /\ other = None
    /\ iid \in FindPaths
    /\ val = None
    /\ result = None
    /\ trees = <<>>

\* iid.Find(tree)
Find ==
    /\ pc = "start"
    /\ pc' = "found"
    /\ op' = "Find"
    /\ result' = InstanceIDFind(iid, tree)
    /\ UNCHANGED <<tree, other, iid, val, trees>>

NextFind == Find

SpecFind == InitFind /\ [][NextFind]_vars

\* The Array a node-identifier addresses in an Object, as a sequence; the
\* empty sequence when the Object holds no Array under the key
Addressed(id, obj) ==
    LET key == id.prefix \o <<":">> \o id.identifier
    IN  IF ObjectContains(obj, key) /\ ObjectAt(obj, key).kind = "array"
        THEN ObjectAt(obj, key).vec ELSE <<>>

\* An element satisfies a predicate [k='v'] when it is an Object whose
\* member k has the RFC7951String form v
Satisfies(elem, p) ==
    LET key == p.nodeID.prefix \o <<":">> \o p.nodeID.identifier
    IN  /\ elem.kind = "object"
        /\ ObjectContains(elem, key)
        /\ HasRFC7951String(ObjectAt(elem, key))
        /\ RFC7951String(ObjectAt(elem, key)) = p.value

SatisfyingAll(id, obj) ==
    {i \in 1..Len(Addressed(id, obj)) :
        \A j \in 1..Len(id.predicates.preds) :
            Satisfies(Addressed(id, obj)[i], id.predicates.preds[j])}

\* C21: Find through expression predicates returns the one element of the
\* addressed Array that satisfies them all, and (nil, false) when no element
\* or more than one does, or when the key is missing.
C21_FindExactlyOne ==
    pc = "found" =>
        IF Cardinality(SatisfyingAll(iid.ids[1], tree)) = 1
        THEN /\ result.found
             /\ \E i \in SatisfyingAll(iid.ids[1], tree) :
                    result.v = Addressed(iid.ids[1], tree)[i]
        ELSE result = NotFound(Nil)

(***************************************************************************)
(* Assoc through expression predicates                                     *)
(***************************************************************************)

\* Paths whose first or second node-identifier has expression predicates
InjectPaths ==
    {InstanceIDNew(x) : x \in
        {<<"/", "m", ":", "l", "[", "k", "=", "'", "b", "'", "]">>,
         <<"/", "m", ":", "l", "[", "k", "=", "'", "b", "'", "]", "/", "v">>,
         <<"/", "m", ":", "l", "[", "k", "=", "'", "b", "'", "]", "[", "d", "=", "'", "c", "'", "]">>,
         <<"/", "m", ":", "l", "[", "n", ":", "k", "=", "'", "b", "'", "]">>,
         <<"/", "m", ":", "c", "/", "l", "[", "k", "=", "'", "b", "'", "]">>,
         <<"/", "m", ":", "c", "/", "l", "[", "k", "=", "'", "b", "'", "]", "/", "v">>,
         <<"/", "m", ":", "l", "l", "[", ".", "=", "'", "7", "'", "]">>,
         <<"/", "m", ":", "l", "[", "k", "=", "'", "a", "'", "]">>}}

\* The node-identifier of a path that has the predicates, and the path up
\* to it
PredicatedAt(i) == CHOOSE s \in 1..Len(i.ids) : ~i.ids[s].predicates.isNil

UpToPredicates(i) == InstanceID(SubSeq(i.ids, 1, PredicatedAt(i)))

EndsInPredicates(i) == PredicatedAt(i) = Len(i.ids)

WithoutPredicates(i) ==
    InstanceID([UpToPredicates(i).ids EXCEPT
                   ![PredicatedAt(i)].predicates = NoPredicates])

IsDotPath(i) ==
    i.ids[PredicatedAt(i)].predicates.preds[1].nodeID.identifier = <<".">>

InjectEntries == {ObjectNew, ObjectWith1(<<"v">>, U32(1))}

\* A list entry is written as an Object; a leaf goes to a leaf-list or
\* under an entry's member
InitInject ==
    /\ pc = "start"
    /\ op = "none"
    /\ tree \in Trees
    /\ other = None
    /\ iid \in InjectPaths
    /\ val \in IF EndsInPredicates(iid) /\ ~IsDotPath(iid)
               THEN InjectEntries ELSE Leaves
    /\ result = None
    /\ trees = <<>>

\* tree.Assoc(iid, val)
AssocThrough ==
    /\ pc = "start"
    /\ pc' = "assoced"
    /\ op' = "Assoc"
    /\ result' = TreeAssoc(tree, iid, val)
    /\ UNCHANGED <<tree, other, iid, val, trees>>

NextInject == AssocThrough

SpecInject == InitInject /\ [][NextInject]_vars

\* C22: after an Assoc through expression predicates that no entry of the
\* tree satisfied, the path resolves in the result and the entry it goes
\* through holds, under the key each predicate names, the predicate's value;
\* a '.' predicate leaves the value written as it was.
C22_AssocInjectsKey ==
    (/\ pc = "assoced"
     /\ TreeFind(tree, UpToPredicates(iid)) = NotFound(Nil)
     /\ PredicatedAt(iid) = 1 => SatisfyingAll(iid.ids[1], tree) = {}) =>
        /\ ~IsPanic(result)
        /\ IF IsDotPath(iid)
           THEN LET last(arr) ==
                        /\ arr.kind = "array"
                        /\ Len(arr.vec) > 0
                        /\ arr.vec[Len(arr.vec)] = val
                IN  last(TreeFind(result, WithoutPredicates(iid)).v)
           ELSE LET holds(entry) ==
                        /\ entry.kind = "object"
                        /\ \A j \in 1..Len(iid.ids[PredicatedAt(iid)].predicates.preds) :
                               LET p == iid.ids[PredicatedAt(iid)].predicates.preds[j]
                                   key == p.nodeID.prefix \o <<":">> \o p.nodeID.identifier
                               IN  /\ ObjectContains(entry, key)
                                   /\ ObjectAt(entry, key) = Str(p.value)
                IN  /\ TreeFind(result, iid).found
                    /\ holds(TreeFind(result, UpToPredicates(iid)).v)

(***************************************************************************)
(* Object keys: bare and qualified                                         *)
(***************************************************************************)

\* Keys of the calls: bare, qualified by the object's module m, and
\* qualified by a second module
BareKeys == {<<"k">>, <<"d">>}
CallKeys == BareKeys \cup {<<"m", ":", "k">>, <<"m", ":", "d">>,
                           <<"n", ":", "k">>}

\* Values of the calls: leaves, and containers that hold bare and qualified
\* members
KeyValues ==
    {U32(1),
     ObjectWith2(<<"x">>, U32(1), <<"n", ":", "y">>, Str(<<"a">>)),
     ObjectBelongsTo(ObjectWith1(<<"x">>, U32(1)), <<"o">>),
     ArrayWith(<<ObjectWith1(<<"x">>, U32(1))>>)}

\* Objects of module m, as a member of a tree of module m is, and the
\* Object ObjectNew() returns
KeyObjects ==
    {ObjectNew, ObjectBelongsTo(ObjectNew, <<"m">>),
     ObjectBelongsTo(ObjectWith1(<<"k">>, U32(1)), <<"m">>)}

InitKeys ==
    /\ pc = "start"
    /\ op = "none"
    /\ tree \in KeyObjects
    /\ other = None
    /\ iid = None
    /\ val = None
    /\ result = None
    /\ trees = <<>>

\* obj = obj.Assoc(key, value)
ObjectAssocKey ==
    \E key \in CallKeys, value \in KeyValues :
        /\ pc' = "assoced"
        /\ op' = "Assoc"
        /\ other' = [key |-> key]
        /\ val' = value
        /\ tree' = ObjectAssoc(tree, key, value)
        /\ UNCHANGED <<iid, result, trees>>

\* obj = obj.Delete(key)
ObjectDeleteKey ==
    \E key \in CallKeys :
        /\ pc' = "deleted"
        /\ op' = "Delete"
        /\ other' = [key |-> key]
        /\ val' = None
        /\ tree' = ObjectDelete(tree, key)
        /\ UNCHANGED <<iid, result, trees>>

NextKeys == ObjectAssocKey \/ ObjectDeleteKey

SpecKeys == InitKeys /\ [][NextKeys]_vars

\* (*Object).Find
ObjectFind(obj, key) ==
    [v |-> ObjectAt(obj, key), found |-> ObjectContains(obj, key)]

\* Whether a stored key has the form "module:local"
IsQualified(k) == Len(SplitN2(k, ":")) = 2 /\ SplitN2(k, ":")[1] # EmptyStr

\* Every Object of known module in a value, the value included, stores its
\* members under qualified keys
RECURSIVE AllQualified(_)
AllQualified(v) ==
    CASE v.kind = "object" ->
             /\ v.module # EmptyStr =>
                    \A k \in DOMAIN v.store : IsQualified(k)
             /\ \A k \in DOMAIN v.store : AllQualified(v.store[k])
      [] v.kind = "array" ->
             \A i \in 1..Len(v.vec) : AllQualified(v.vec[i])
      [] OTHER -> TRUE

\* C23: in an object of module M, At, Contains, Find, Assoc and Delete give
\* for a bare key k what they give for "M:k", and after any sequence of
\* Assoc and Delete every stored key of an object whose module is known has
\* the form "module:local".
C23_BareAndQualifiedAlike ==
    tree.module # EmptyStr =>
        /\ \A b \in BareKeys :
               LET q == tree.module \o <<":">> \o b
               IN  /\ ObjectAt(tree, b) = ObjectAt(tree, q)
                   /\ ObjectContains(tree, b) = ObjectContains(tree, q)
                   /\ ObjectFind(tree, b) = ObjectFind(tree, q)
                   /\ ObjectDelete(tree, b) = ObjectDelete(tree, q)
                   /\ \A value \in KeyValues :
                          ObjectAssoc(tree, b, value)
                              = ObjectAssoc(tree, q, value)
        /\ AllQualified(tree)

\* An object of module m, just written through a bare key, that holds a
\* member of each module and a nested Object
C23_Witness ==
    /\ pc = "assoced"
    /\ tree.module = <<"m">>
    /\ other.key \in BareKeys
    /\ val.kind = "object"
    /\ ObjectLength(val) = 2
    /\ ObjectContains(tree, <<"m", ":", "k">>)
    /\ ObjectContains(tree, <<"n", ":", "k">>)
    /\ ObjectContains(tree, <<"m", ":", "d">>)

(***************************************************************************)
(* Array.Assoc past the end                                                *)
(***************************************************************************)

\* (*Array).Find: like At, the type assertion .(*Value) panics on a padded
\* element.
ArrayFind(arr, index) ==
    IF ~ArrayContains(arr, index) THEN NotFound(Nil)
    ELSE IF arr.vec[index + 1].kind = "rawnil" THEN Panicked
    ELSE Found(arr.vec[index + 1])

\* (*Array).Range with a func(*Value) that collects what it is handed: the
\* wrapper's val.(*Value) panics on the first padded element.
ArrayRange(arr) ==
    IF \E i \in 1..Len(arr.vec) : arr.vec[i].kind = "rawnil" THEN Panic
    ELSE [kind |-> "ranged", values |-> arr.vec]

InitPad ==
    /\ pc = "start"
    /\ op = "none"
    /\ tree \in LeafLists
    /\ other = None
    /\ iid = None
    /\ val \in Leaves
    /\ result = None
    /\ trees = <<>>

\* arr.Assoc(index, val), at an index in range, at Length() and past it
ArrayAssocCall ==
    \E index \in 0..(MaxArrLen + 2) :
        /\ pc = "start"
        /\ pc' = "assoced"
        /\ op' = "Assoc"
        /\ other' = [index |-> index]
        /\ result' = ArrayAssoc(tree, index, val)
        /\ UNCHANGED <<tree, iid, val, trees>>

\* arr.Append(val)
ArrayAppendCall ==
    /\ pc = "start"
    /\ pc' = "appended"
    /\ op' = "Append"
    /\ result' = ArrayAppend(tree, val)
    /\ UNCHANGED <<tree, other, iid, val, trees>>

NextPad == ArrayAssocCall \/ ArrayAppendCall

SpecPad == InitPad /\ [][NextPad]_vars

\* C24: Assoc(i, v) with i >= Length() gives an array of length i+1 that
\* holds v at i and, at the padded indices Length()..i-1, Null Values that
\* At, Find and Range hand back; Append(v) gives what Assoc(Length(), v)
\* gives.
C24_AssocPadsWithNull ==
    /\ (pc = "assoced" /\ other.index >= ArrayLength(tree)) =>
           /\ ArrayLength(result) = other.index + 1
           /\ ArrayAt(result, other.index) = val
           /\ \A j \in ArrayLength(tree)..(other.index - 1) :
                  /\ ArrayAt(result, j) = Null
                  /\ ArrayFind(result, j) = Found(Null)
           /\ ArrayRange(result) =
                  [kind |-> "ranged",
                   values |-> [j \in 1..(other.index + 1) |->
                                  IF j <= ArrayLength(tree) THEN tree.vec[j]
                                  ELSE IF j = other.index + 1 THEN val
                                  ELSE Null]]
    /\ pc = "appended" =>
           result = ArrayAssoc(tree, ArrayLength(tree), val)

(***************************************************************************)
(* The soft accessors To...                                                *)
(***************************************************************************)

\* What (*Value).ToInstanceID reads: a Value that holds an *InstanceID
IID(i) == [kind |-> "instance-id", id |-> i]

\* (*Object)(nil) and (*Array)(nil)
NilObject == [kind |-> "nilobject"]
NilArray == [kind |-> "nilarray"]

\* reflect.Type.ConvertibleTo for a numeric target: the numeric types
\* convert to each other.  The nil Type of nil data has no methods: the
\* call panics.
ConvertibleTo(ty, to) ==
    IF ty = "nil" THEN "panic"
    ELSE IF ty \in NumericTypes \cup {"float64"} THEN "yes" ELSE "no"

\* reflect's Convert to an integer type: of an integer the low bits, of a
\* float the integral part
convertToInt(v, to) ==
    IF v.kind = "float64"
    THEN convertNumeric([n |-> IF v.tenths >= 0 THEN v.tenths \div 10
                               ELSE 0 - ((0 - v.tenths) \div 10)], to)
    ELSE convertNumeric(v, to)

\* convertToFloat
convertToFloat(v) == IF v.kind = "float64" THEN v ELSE F64(v.n * 10)

\* defaultVal[0] when a default is given, the zero value otherwise
OrDefault(defaultVal, zero) ==
    IF Len(defaultVal) # 0 THEN defaultVal[1] ELSE zero

\* ToInt32, ToUint32, ToInt64 and ToUint64, which differ in the target
ToInt(v, to, defaultVal) ==
    LET convert(c) ==
            IF c = "panic" THEN Panic
            ELSE IF c = "yes" THEN convertToInt(v, to)
            ELSE OrDefault(defaultVal, [kind |-> to, n |-> 0])
    IN  convert(ConvertibleTo(TypeOf(v), to))

ToInt32(v, defaultVal) == ToInt(v, "int32", defaultVal)
ToUint32(v, defaultVal) == ToInt(v, "uint32", defaultVal)
ToInt64(v, defaultVal) == ToInt(v, "int64", defaultVal)
ToUint64(v, defaultVal) == ToInt(v, "uint64", defaultVal)

ToFloat(v, defaultVal) ==
    LET convert(c) ==
            IF c = "panic" THEN Panic
            ELSE IF c = "yes" THEN convertToFloat(v)
            ELSE OrDefault(defaultVal, F64(0))
    IN  convert(ConvertibleTo(TypeOf(v), "float64"))

ToBoolean(v, defaultVal) ==
    IF v = Empty THEN Bool(TRUE)
    ELSE IF v.kind = "bool" THEN v
    ELSE OrDefault(defaultVal, Bool(FALSE))

ToObject(v, defaultVal) ==
    IF v.kind = "object" THEN v ELSE OrDefault(defaultVal, NilObject)

ToArray(v, defaultVal) ==
    IF v.kind = "array" THEN v ELSE OrDefault(defaultVal, NilArray)

\* (*Value).ToString
ValueToString(v, defaultVal) ==
    IF v.kind = "string" THEN v ELSE OrDefault(defaultVal, Str(EmptyStr))

ToInstanceID(v, defaultVal) ==
    IF v.kind = "instance-id" THEN v.id
    ELSE IF v.kind = "string" /\ ~IsPanicOutcome(InstanceIDNew(v.s))
    THEN InstanceIDNew(v.s)
    ELSE OrDefault(defaultVal, NilInstanceID)

\* The Values read: the Null Value, Empty, a leaf of every type at the
\* edges of its range, containers and instance-identifiers
SoftValues ==
    {Null, Empty, Str(<<"a">>), Str(<<"/", "m", ":", "a">>), Bool(TRUE),
     Bool(FALSE), F64(15), F64(0 - 15), ObjectNew, ArrayWith(<<U32(1)>>),
     IID(InstanceIDNew(<<"/", "m", ":", "a">>))}
    \cup EdgeNumbers

\* The default given to each accessor
SoftDefault(name) ==
    CASE name = "ToObject" -> ObjectWith1(<<"d">>, U32(1))
      [] name = "ToArray" -> ArrayWith(<<Str(<<"d">>)>>)
      [] name = "ToString" -> Str(<<"d">>)
      [] name = "ToInt32" -> I32(3)
      [] name = "ToUint32" -> U32(3)
      [] name = "ToInt64" -> I64(3)
      [] name = "ToUint64" -> U64(3)
      [] name = "ToFloat" -> F64(35)
      [] name = "ToBoolean" -> Bool(TRUE)
      [] name = "ToInstanceID" -> InstanceIDNew(<<"/", "m", ":", "d">>)

\* The zero value of each accessor's type
SoftZero(name) ==
    CASE name = "ToObject" -> NilObject
      [] name = "ToArray" -> NilArray
      [] name = "ToString" -> Str(EmptyStr)
      [] name = "ToInt32" -> I32(0)
      [] name = "ToUint32" -> U32(0)
      [] name = "ToInt64" -> I64(0)
      [] name = "ToUint64" -> U64(0)
      [] name = "ToFloat" -> F64(0)
      [] name = "ToBoolean" -> Bool(FALSE)
      [] name = "ToInstanceID" -> NilInstanceID

InitSoft ==
    /\ pc = "start"
    /\ op = "none"
    /\ tree = None
    /\ other \in SoftValues
    /\ iid = None
    /\ val = None
    /\ result = None
    /\ trees \in {<<>>, <<"default">>}

\* The default handed to accessor name: none, or SoftDefault(name)
GivenDefault(name) == IF trees = <<>> THEN <<>> ELSE <<SoftDefault(name)>>

\* The step of a call other.name(defaults...) that returned r
SoftCall(name, r) ==
    /\ pc = "start"
    /\ pc' = "read"
    /\ op' = name
    /\ result' = r
    /\ UNCHANGED <<tree, other, iid, val, trees>>

ToObjectCall == SoftCall("ToObject", ToObject(other, GivenDefault("ToObject")))

ToArrayCall == SoftCall("ToArray", ToArray(other, GivenDefault("ToArray")))

ToStringCall == 
    SoftCall("ToString", ValueToString(other, GivenDefault("ToString")))

ToInt32Call == SoftCall("ToInt32", ToInt32(other, GivenDefault("ToInt32")))

ToUint32Call == SoftCall("ToUint32", ToUint32(other, GivenDefault("ToUint32")))

ToInt64Call == SoftCall("ToInt64", ToInt64(other, GivenDefault("ToInt64")))

ToUint64Call == SoftCall("ToUint64", ToUint64(other, GivenDefault("ToUint64")))

ToFloatCall == SoftCall("ToFloat", ToFloat(other, GivenDefault("ToFloat")))

ToBooleanCall ==
    SoftCall("ToBoolean", ToBoolean(other, GivenDefault("ToBoolean")))

ToInstanceIDCall ==
    SoftCall("ToInstanceID", ToInstanceID(other, GivenDefault("ToInstanceID")))

NextSoft ==
    \/ ToObjectCall
    \/ ToArrayCall
    \/ ToStringCall
    \/ ToInt32Call
    \/ ToUint32Call
    \/ ToInt64Call
    \/ ToUint64Call
    \/ ToFloatCall
    \/ ToBooleanCall
    \/ ToInstanceIDCall

SpecSoft == InitSoft /\ [][NextSoft]_vars

\* Whether a Value converts to the type accessor name returns
SoftConvertible(v, name) ==
    CASE name = "ToObject" -> v.kind = "object"
      [] name = "ToArray" -> v.kind = "array"
      [] name = "ToString" -> v.kind = "string"
      [] name \in {"ToInt32", "ToUint32", "ToInt64", "ToUint64", "ToFloat"} ->
             v.kind \in NumericTypes \cup {"float64"}
      [] name = "ToBoolean" -> v.kind \in {"bool", "empty"}
      [] name = "ToInstanceID" ->
             \/ v.kind = "instance-id"
             \/ v.kind = "string" /\ ~IsPanicOutcome(InstanceIDNew(v.s))

\* C25: no soft accessor fails on any Value, the Null Value included, and
\* on a Value that does not convert to the accessor's type it returns the
\* default given, or the zero value when none is given.
C25_SoftAccessorsNeverFail ==
    pc = "read" =>
        /\ ~IsPanicOutcome(result)
        /\ ~SoftConvertible(other, op) =>
               result = IF trees = <<>> THEN SoftZero(op) ELSE SoftDefault(op)

(***************************************************************************)
(* computeIdentifier and computeIdentifierDefault                          *)
(***************************************************************************)

\* Paths whose selector is taken: node-identifiers, positional predicates
\* in and past a leaf-list, '.' predicates and key-expression predicates
IdentPaths ==
    {InstanceIDNew(x) : x \in
        {<<"/", "m", ":", "l", "l">>,
         <<"/", "m", ":", "l">>,
         <<"/", "m", ":", "c">>,
         <<"/", "n", ":", "x">>,
         <<"/", "m", ":", "l", "[", "0", "]">>,
         <<"/", "m", ":", "l", "[", "1", "]">>,
         <<"/", "m", ":", "l", "[", "3", "]">>,
         <<"/", "m", ":", "l", "[", ".", "=", "'", "1", "'", "]">>,
         <<"/", "m", ":", "l", "[", ".", "=", "'", "2", "'", "]">>,
         <<"/", "m", ":", "l", "[", "k", "=", "'", "a", "'", "]">>,
         <<"/", "m", ":", "l", "[", "k", "=", "'", "1", "'", "]">>,
         <<"/", "m", ":", "l", "[", "k", "=", "'", "a", "'", "]", "[", "v", "=", "'", "1", "'", "]">>}}

\* The parents a selector is applied to: the trees, and the leaf-lists,
\* lists and containers they hold
IdentParents ==
    Trees \cup UNION {{t.store[k] : k \in DOMAIN t.store} : t \in Trees}

InitIdent ==
    /\ pc = "start"
    /\ op = "none"
    /\ tree \in IdentParents
    /\ other = None
    /\ iid \in IdentPaths
    /\ val = None
    /\ result = None
    /\ trees = <<>>

\* iid.selector().computeIdentifier(parent)
ComputeIdentifier ==
    /\ pc = "start"
    /\ pc' = "identified"
    /\ op' = "computeIdentifier"
    /\ result' = computeIdentifier(selector(iid), tree)
    /\ UNCHANGED <<tree, other, iid, val, trees>>

\* iid.selector().computeIdentifierDefault(parent)
ComputeIdentifierDefault ==
    /\ pc = "start"
    /\ pc' = "defaulted"
    /\ op' = "computeIdentifierDefault"
    /\ result' = computeIdentifierDefault(selector(iid), tree)
    /\ UNCHANGED <<tree, other, iid, val, trees>>

NextIdent == ComputeIdentifier \/ ComputeIdentifierDefault

SpecIdent == InitIdent /\ [][NextIdent]_vars

\* Find of a selector: of the node-identifier, or of its predicates
SelectorFind(sel, value) ==
    IF sel.kind = "nodeID" THEN nodeIDFind(sel.id, value)
    ELSE predicatesFind(sel.preds, value)

\* The child of a parent an identity names; nil when it names none
ChildAt(parent, id) ==
    IF id.kind = "string" /\ parent.kind = "object"
    THEN ObjectAt(parent, id.s)
    ELSE IF id.kind = "int" /\ parent.kind = "array"
    THEN ArrayAt(parent, id.n)
    ELSE Nil

\* Whether the selector is a '.' predicate
IsDotSelector(sel) ==
    /\ sel.kind = "predicates"
    /\ sel.preds[1].kind = "expr"
    /\ sel.preds[1].nodeID.identifier = <<".">>

\* Whether the selector is applied to the kind of parent it selects in
SelectsIn(sel, parent) ==
    IF sel.kind = "nodeID" THEN parent.kind = "object"
    ELSE parent.kind = "array"

\* C26: where the selector's Find resolves to a child of the parent,
\* computeIdentifier returns the key or index of that child (for a '.'
\* predicate the first element that holds the value), and where Find
\* resolves to nothing it returns nil.
C26_IdentifierOfFound ==
    (pc = "identified" /\ SelectsIn(selector(iid), tree)) =>
        LET same(f) ==
                IF IsPanic(f.v) THEN TRUE
                ELSE IF f.found
                THEN /\ result.kind \in {"string", "int"}
                     /\ ChildAt(tree, result) = f.v
                     /\ (result.kind = "int" /\ IsDotSelector(selector(iid))) =>
                            \A j \in 0..(result.n - 1) :
                                ArrayAt(tree, j) # f.v
                ELSE result = IdNil
        IN  same(SelectorFind(selector(iid), tree))

\* C27: computeIdentifierDefault returns what computeIdentifier returns
\* when that is not nil, and otherwise "prefix:identifier" for a
\* node-identifier on an Object, the index of a positional predicate on an
\* Array, and the Array's length for expression predicates.
C27_DefaultIdentity ==
    (pc = "defaulted" /\ SelectsIn(selector(iid), tree)) =>
        LET last == iid.ids[Len(iid.ids)]
            default(id) ==
                IF id.kind = "panic" THEN TRUE
                ELSE IF id.kind # "nil" THEN result = id
                ELSE IF last.predicates.isNil
                THEN result = IdKey(last.prefix \o <<":">> \o last.identifier)
                ELSE IF last.predicates.preds[1].kind = "pos"
                THEN result = IdInt(last.predicates.preds[1].pos)
                ELSE result = IdInt(ArrayLength(tree))
        IN  default(computeIdentifier(selector(iid), tree))

(***************************************************************************)
(* Reparenting of inserted containers                                      *)
(***************************************************************************)

\* Containers as ObjectWith and ArrayWith build them, of no module, with
\* bare members, a member of module n and nested containers
BuiltContainers ==
    {ObjectNew,
     ObjectWith2(<<"x">>, U32(1), <<"n", ":", "y">>, Str(<<"a">>)),
     ObjectWith1(<<"x">>, ObjectWith1(<<"y">>, U32(1))),
     ArrayWith(<<ObjectWith1(<<"x">>, U32(1))>>)}

\* The containers inserted: the built ones, and the ones read back from
\* under a key of module o or m, which belong to that module
InsertedContainers ==
    BuiltContainers
    \cup {ObjectAt(ObjectWith1(<<"o", ":", "c">>, c), <<"o", ":", "c">>) :
             c \in BuiltContainers}
    \cup {ObjectAt(ObjectWith1(<<"m", ":", "c">>, c), <<"m", ":", "c">>) :
             c \in BuiltContainers}

ReparentKeys == {<<"k">>, <<"m", ":", "k">>, <<"n", ":", "k">>}

InitReparent ==
    /\ pc = "start"
    /\ op = "none"
    /\ tree \in {ObjectNew, ObjectBelongsTo(ObjectNew, <<"m">>),
                 ObjectWith1(<<"m", ":", "d">>, U32(1))}
    /\ other \in {[key |-> k] : k \in ReparentKeys}
    /\ iid = None
    /\ val \in InsertedContainers
    /\ result = None
    /\ trees = <<>>

\* obj.Assoc(key, val) of a container
InsertUnder ==
    /\ pc = "start"
    /\ pc' = "inserted"
    /\ op' = "Assoc"
    /\ result' = ObjectAssoc(tree, other.key, val)
    /\ UNCHANGED <<tree, other, iid, val, trees>>

\* ObjectWith(PairNew(key, val)), with the pair handed to ObjectNew().with
WithPair ==
    /\ pc = "start"
    /\ tree = ObjectNew
    /\ pc' = "inserted"
    /\ op' = "ObjectWith"
    /\ result' = ObjectWith1(other.key, val)
    /\ UNCHANGED <<tree, other, iid, val, trees>>

NextReparent == InsertUnder \/ WithPair

SpecReparent == InitReparent /\ [][NextReparent]_vars

\* The number of members of a container
MembersOf(c) == IF c.kind = "object" THEN ObjectLength(c) ELSE ArrayLength(c)

\* Whether stored is what the claim has the inserted container become in
\* module: it carries the module, has as many members, has the members of
\* the inserted one's module and of no module under keys of the module and
\* the members of other modules under the keys they had, and every
\* container below it is reparented alike.
RECURSIVE ReparentedTo(_, _, _)
ReparentedTo(stored, inserted, module) ==
    /\ stored.kind = inserted.kind
    /\ stored.kind \in {"object", "array"} =>
           /\ stored.module = module
           /\ MembersOf(stored) = MembersOf(inserted)
    /\ stored.kind = "object" =>
           \A k \in DOMAIN inserted.store :
               LET p == parseKey(inserted, k)
                   q == IF p[1] \in {EmptyStr, inserted.module}
                        THEN module \o <<":">> \o p[2] ELSE k
               IN  /\ q \in DOMAIN stored.store
                   /\ ReparentedTo(stored.store[q], inserted.store[k],
                                   SplitN2(q, ":")[1])
    /\ stored.kind = "array" =>
           \A i \in 1..Len(inserted.vec) :
               /\ i <= Len(stored.vec)
               /\ ReparentedTo(stored.vec[i], inserted.vec[i], module)
    /\ stored.kind \notin {"object", "array"} => stored = inserted

\* C28: a container inserted under a key of a known module is stored
\* reparented to that module and loses nothing: it carries the module, has
\* as many members as before, its members of the old module or of none are
\* re-keyed to the new module and members of other modules keep their
\* keys; every key of an Object of known module is qualified.
C28_ReparentedLosesNothing ==
    (pc = "inserted" /\ parseKey(tree, other.key)[1] # EmptyStr) =>
        /\ ReparentedTo(ObjectAt(result, other.key), val,
                        parseKey(tree, other.key)[1])
        /\ AllQualified(ObjectAt(result, other.key))

(***************************************************************************)
(* Decoding of scalars                                                     *)
(***************************************************************************)

\* The texts between the quotes: every text of up to three of these
\* characters, and the texts of three after a sign
ScalarChars == {"1", "0", "-", "+", ".", "a"}

QuotedItems ==
    SeqsUpTo(ScalarChars, 3)
    \cup {<<sg>> \o s : sg \in {"-", "+"}, s \in [1..3 -> ScalarChars]}

\* The integers written bare
BareIntegers ==
    {<<"0">>, <<"1">>, <<"1", "0">>, <<"-", "1">>, <<"-", "1", "0">>}

\* A message: a quoted item, or a bare integer
InitScalar ==
    /\ pc = "start"
    /\ op = "none"
    /\ tree = None
    /\ other \in {[quoted |-> TRUE, item |-> s] : s \in QuotedItems}
                \cup {[quoted |-> FALSE, item |-> s] : s \in BareIntegers}
    /\ iid = None
    /\ val = None
    /\ result = None
    /\ trees = <<>>

\* json.Unmarshal(msg, &v) on a new Value, through unmarshalRFC7951
UnmarshalScalar ==
    /\ pc = "start"
    /\ pc' = "decoded"
    /\ op' = "Unmarshal"
    /\ result' = ValueUnmarshal(Null,
                     IF other.quoted THEN <<"\"">> \o other.item \o <<"\"">>
                     ELSE other.item,
                     EmptyStr)
    /\ UNCHANGED <<tree, other, iid, val, trees>>

NextScalar == UnmarshalScalar

SpecScalar == InitScalar /\ [][NextScalar]_vars

\* Whether a text without sign reads as a decimal float with a '.': digits,
\* '.', and up to one digit
IsFloatText(s) ==
    \E d \in 2..Len(s) :
        /\ s[d] = "."
        /\ IsUintText(SubSeq(s, 1, d - 1))
        /\ Len(s) - d <= 1
        /\ d < Len(s) => IsDigit(s[Len(s)])

\* The float such a text denotes, in tenths
FloatTenths(s) ==
    LET d == CHOOSE i \in 2..Len(s) : s[i] = "."
    IN  ParseUint(SubSeq(s, 1, d - 1)) * 10
            + (IF d < Len(s) THEN DigitVal(s[Len(s)]) ELSE 0)

\* What the claim has a quoted item decode to
DecodedByContent(item) ==
    LET signed == item # <<>> /\ item[1] \in {"-", "+"}
        digits == IF signed THEN Tail(item) ELSE item
        negative == item # <<>> /\ item[1] = "-"
    IN  IF digits = <<>> \/ ~IsDigit(digits[1]) THEN Str(item)
        ELSE IF ContainsRune(item, ".") /\ IsFloatText(digits)
        THEN F64(IF negative THEN 0 - FloatTenths(digits)
                 ELSE FloatTenths(digits))
        ELSE IF IsUintText(digits)
        THEN IF negative THEN I64(0 - ParseUint(digits))
             ELSE U64(ParseUint(digits))
        ELSE Str(item)

\* C29: a quoted scalar decodes by content: numeric-led text with a '.'
\* that parses as a float to an F64, other numeric-led text to an I64 after
\* '-' and a U64 otherwise, and text that does not parse or has no numeric
\* lead to a String; a bare integer decodes to an I32 after '-' and a U32
\* otherwise.
C29_DecodedByContent ==
    pc = "decoded" =>
        /\ ~result.err
        /\ IF other.quoted THEN result.v = DecodedByContent(other.item)
           ELSE IF other.item[1] = "-"
           THEN result.v = I32(0 - ParseUint(Tail(other.item)))
           ELSE result.v = U32(ParseUint(other.item))

(***************************************************************************)
(* Merge entries on paths that do not resolve                              *)
(***************************************************************************)

\* An EditOperation of one merge entry whose path does not resolve in the
\* tree has been applied
MergeUnresolved ==
    /\ pc = "edited"
    /\ Len(val.actions) = 1
    /\ val.actions[1].action = "merge"
    /\ ~TreeContains(tree, val.actions[1].path)

\* C30: Tree.Edit of a merge entry whose path does not resolve in the tree
\* does not fail and does what an assoc of the entry's value does: in the
\* result At(path) is that value and the ancestors of the path exist.
C30_MergeUnresolvedIsAssoc ==
    MergeUnresolved =>
        /\ ~IsPanic(result)
        /\ result = TreeAssoc(tree, val.actions[1].path, val.actions[1].value)
        /\ Equal(TreeAt(result, val.actions[1].path), val.actions[1].value)
        /\ TreeContains(result, path(val.actions[1].path))

====
